---- MODULE Spec2Model ----
(***************************************************************************)
(* Model of the TaskForceAI TypeScript SDK: the transport engine           *)
(* (makeRequest, src/src/transport.ts) and the client built on it          *)
(* (src/src/index.ts): submitTask, getTaskStatus, getTaskResult, the       *)
(* status poller (poll), the completion waiter (waitForCompletion), the    *)
(* task status stream (streamTaskStatus), their compositions runTask and   *)
(* runTaskStream, mock mode, and uploadFile / downloadFile.                *)
(*                                                                         *)
(* One behaviour is one call chain on a constructed client.  An action is  *)
(* the code that runs between two suspension points (an outstanding fetch, *)
(* a backoff sleep, the poll interval sleep, a generator parked at yield). *)
(*                                                                         *)
(* Spec follows a client built without a responseHook, SpecHook a client   *)
(* built with one, SpecParse applies the handling of a non-2xx response    *)
(* to a range of bodies.                                                   *)
(***************************************************************************)
EXTENDS Integers, Sequences, FiniteSets, TLC

\* ------------------------------------------------------------------ bounds
MaxRetriesBound == 2      \* largest maxRetries given to a direct makeRequest call
MaxPollAttempts == 2      \* largest maxAttempts given to waitForCompletion / streamTaskStatus
MaxQueuedPulls == 1       \* next() requests made while a pull is outstanding
MaxIterators == 2         \* iterators obtained from one stream handle
MaxMockFetches == 3       \* status fetches other callers make for one mock task

\* ------------------------------------------------------- program constants
DEFAULT_BACKOFF_MS == 500
DEFAULT_MAX_RETRIES == 3

\* --------------------------------------------------------------- the values
Absent == "<undefined>"           \* a field that is not present on an object
NoStatus == -1                    \* TaskForceAIError.statusCode left undefined
NonString == "<not a string>"     \* a field whose value is no string
Unreadable == "<unreadable>"      \* a body whose response.text() rejects

\* new TaskForceAIError(message, statusCode?)
TaskForceAIError(m, c) == [message |-> m, statusCode |-> c]
NoError == TaskForceAIError("", NoStatus)

\* TaskStatus objects (types.ts); `status` is processing | completed | failed
TaskStatus(st, res, err) == [status |-> st, result |-> res, error |-> err]
NoData == TaskStatus("", Absent, Absent)
StatusValues ==
  { TaskStatus("processing", Absent, Absent),
    TaskStatus("completed", "done", Absent),
    TaskStatus("completed", "", Absent),
    TaskStatus("completed", Absent, Absent),
    TaskStatus("failed", Absent, "boom"),
    TaskStatus("failed", Absent, ""),
    TaskStatus("failed", Absent, Absent) }

\* JavaScript truthiness of an optional string field
Truthy(v) == v # Absent /\ v # ""

\* promise / iterator-result states
Idle == [state |-> "idle", data |-> NoData, error |-> NoError]
Pending == [state |-> "pending", data |-> NoData, error |-> NoError]
Resolved(d) == [state |-> "resolved", data |-> d, error |-> NoError]
Rejected(e) == [state |-> "rejected", data |-> NoData, error |-> e]
Finished == [state |-> "finished", data |-> NoData, error |-> NoError]   \* {done: true}

\* ------------------------------------------- what one fetch() can settle to
\* A response body: its text, whether JSON.parse accepts it, whether the
\* parsed value is an object, the object's `error` / `message` string fields
\* and (for a 2xx answer) the decoded payload.
Body(txt, js, rec, e, m, d) ==
  [text |-> txt, json |-> js, isRecord |-> rec, error |-> e, message |-> m, data |-> d]
NoBody == Body("", FALSE, FALSE, Absent, Absent, NoData)

SuccessBodies ==
  { Body("{...}", TRUE, TRUE, Absent, Absent, d) : d \in StatusValues }
    \cup { Body("<html>", FALSE, FALSE, Absent, Absent, NoData) }

ErrorBodies ==
  { Body("{\"error\":\"Not found\"}", TRUE, TRUE, "Not found", Absent, NoData),
    Body("{\"message\":\"oops\"}", TRUE, TRUE, Absent, "oops", NoData),
    Body("Bad gateway", FALSE, FALSE, Absent, Absent, NoData),
    Body(" ", FALSE, FALSE, Absent, Absent, NoData) }

ErrorStatuses == {404, 500, 503}

\* fetch resolved with a Response
Response(st, b) ==
  [kind |-> "response", status |-> st, body |-> b,
   cause |-> "", isError |-> FALSE, name |-> "", message |-> ""]
\* fetch (or response.json()) rejected with a thrown value
Rejection(c, isE, n, m) ==
  [kind |-> "reject", status |-> 0, body |-> NoBody,
   cause |-> c, isError |-> isE, name |-> n, message |-> m]

Responses ==
  { Response(200, b) : b \in SuccessBodies }
    \cup { Response(st, b) : st \in ErrorStatuses, b \in ErrorBodies }

\* the exchange could not complete: an Error, or a rejection that is no Error
NetworkFailures ==
  { Rejection("network", TRUE, "TypeError", "unreachable"),
    Rejection("network", FALSE, "", "") }

\* buildSignal: the per-attempt signal is AbortSignal.timeout(timeoutMs),
\* joined by AbortSignal.any with options.signal when the caller gave one.
\* AbortSignal.timeout aborts with a DOMException named TimeoutError, and a
\* standard fetch rejects with the signal's reason; a fetch that raises its
\* own AbortError on any abort (as the test double at transport.ts:434-456
\* does) rejects with an AbortError.  Both are outcomes of a build.
TimeoutAborts ==
  { Rejection("timeout", TRUE, "TimeoutError", "The operation timed out."),
    Rejection("timeout", TRUE, "AbortError", "Aborted") }
\* the caller's own signal fired: AbortController.abort() gives an AbortError
SignalAborts ==
  { Rejection("signal", TRUE, "AbortError", "This operation was aborted") }

buildSignal(externalSignal) ==
  IF externalSignal THEN TimeoutAborts \cup SignalAborts ELSE TimeoutAborts

FetchOutcomes(externalSignal) ==
  Responses \cup NetworkFailures \cup buildSignal(externalSignal)

\* response.json() on a body that is not JSON throws a SyntaxError
JsonSyntaxError == Rejection("badjson", TRUE, "SyntaxError", "Unexpected token")

\* ------------------------------------------------- transport.ts, pure parts
\* response.ok
ResponseOk(st) == st >= 200 /\ st < 300

\* what the trace keeps of an attempt: a response's status (and that a 2xx
\* body was no JSON), or why and with what the fetch was rejected
Tag(o) ==
  [kind |-> o.kind, status |-> o.status,
   cause |-> IF o.kind = "response" /\ ResponseOk(o.status) /\ ~o.body.json
               THEN "badjson" ELSE o.cause,
   isError |-> o.isError, message |-> o.message]

\* errorText.trim() for the body texts above
Trim(t) ==
  IF t \in {"", " "} THEN ""
  ELSE IF t = " Bad gateway " THEN "Bad gateway"
  ELSE t

\* typeof v === 'string' for a field of the parsed object
IsStringField(v) == v \notin {Absent, NonString}

HttpLiteral(st) == "HTTP " \o ToString(st)

\* mutants of parseErrorMessage: an object without an `error` string gives
\* its `message` string; the body text is returned trimmed
parseErrorMessage_messageFallback(st, b) ==
  IF b.text = Unreadable THEN HttpLiteral(st)
  ELSE IF b.json /\ b.isRecord
    THEN IF IsStringField(b.error) THEN b.error
         ELSE IF IsStringField(b.message) THEN b.message ELSE HttpLiteral(st)
    ELSE IF Len(Trim(b.text)) > 0 THEN b.text ELSE HttpLiteral(st)
parseErrorMessage_trimmed(st, b) ==
  IF b.text = Unreadable THEN HttpLiteral(st)
  ELSE IF b.json /\ b.isRecord
    THEN IF IsStringField(b.error) THEN b.error ELSE HttpLiteral(st)
    ELSE IF Len(Trim(b.text)) > 0 THEN Trim(b.text) ELSE HttpLiteral(st)

\* parseErrorMessage (transport.ts:155-174)
parseErrorMessage(st, b) ==
  IF b.text = Unreadable THEN HttpLiteral(st)
  ELSE IF b.json /\ b.isRecord
    THEN IF IsStringField(b.error) THEN b.error ELSE HttpLiteral(st)
    ELSE IF Len(Trim(b.text)) > 0 THEN b.text ELSE HttpLiteral(st)

\* mutants of shouldRetry: the status range is not looked at; the attempt
\* budget is not looked at
shouldRetry_anyStatus(r, st, att, maxR) == r /\ att < maxR
shouldRetry_noBudget(r, st, att, maxR) == r /\ st >= 500 /\ st < 600

\* const shouldRetry = retryable && status >= 500 && status < 600 && attempt < maxRetries
shouldRetry(r, st, att, maxR) == r /\ st >= 500 /\ st < 600 /\ att < maxR

\* error instanceof Error && error.name === 'AbortError'
IsAbortError(e) == e.isError /\ e.name = "AbortError"

\* mutant of NetworkRetry: the retryable flag is not looked at
NetworkRetry_ignoresFlag(r, att, maxR) == att < maxR

\* if (retryable && attempt < maxRetries)
NetworkRetry(r, att, maxR) == r /\ att < maxR

\* `Network error: ${error instanceof Error ? error.message : 'Unknown error'}`
NetworkErrorMessage(e) ==
  "Network error: " \o (IF e.isError THEN e.message ELSE "Unknown error")

\* the three ways one loop iteration of makeRequest ends
StepRetry == [act |-> "retry", data |-> NoData, error |-> NoError]
StepReturn(d) == [act |-> "return", data |-> d, error |-> NoError]
StepThrow(e) == [act |-> "throw", data |-> NoData, error |-> e]

\* the catch block of makeRequest (transport.ts:239-252) for a thrown value
\* that is not a TaskForceAIError
CatchBlock(e, r, att, maxR) ==
  IF IsAbortError(e) THEN StepThrow(TaskForceAIError("Request timeout", NoStatus))
  ELSE IF NetworkRetry(r, att, maxR) THEN StepRetry
  ELSE StepThrow(TaskForceAIError(NetworkErrorMessage(e), NoStatus))

\* mutant of AttemptStep: a 2xx body that is no JSON fails the call at once,
\* as an HTTP error would
AttemptStep_badJsonIsHttpError(o, r, att, maxR) ==
  IF o.kind = "response"
    THEN IF ~ResponseOk(o.status)
           THEN IF shouldRetry(r, o.status, att, maxR)
                  THEN StepRetry
                  ELSE StepThrow(TaskForceAIError(parseErrorMessage(o.status, o.body), o.status))
           ELSE IF o.body.json
                  THEN StepReturn(o.body.data)
                  ELSE StepThrow(TaskForceAIError("Invalid JSON", o.status))
    ELSE CatchBlock(o, r, att, maxR)

\* one iteration of the attempt loop (transport.ts:203-252) once fetch has
\* settled to o.  The TaskForceAIError thrown for a non-2xx answer passes
\* through the catch block unchanged (line 240).
AttemptStep(o, r, att, maxR) ==
  IF o.kind = "response"
    THEN IF ~ResponseOk(o.status)
           THEN IF shouldRetry(r, o.status, att, maxR)
                  THEN StepRetry
                  ELSE StepThrow(TaskForceAIError(parseErrorMessage(o.status, o.body), o.status))
           ELSE IF o.body.json
                  THEN StepReturn(o.body.data)
                  ELSE CatchBlock(JsonSyntaxError, r, att, maxR)
    ELSE CatchBlock(o, r, att, maxR)

\* for (attempt = 0; attempt <= maxRetries; attempt += 1)
AttemptLoopCond(att, maxR) == att <= maxR

\* mutant of BackoffDelay: the same delay before every retry
BackoffDelay_constant(att) == DEFAULT_BACKOFF_MS

\* await sleep(DEFAULT_BACKOFF_MS * (attempt + 1))
BackoffDelay(att) == DEFAULT_BACKOFF_MS * (att + 1)

MaxRetriesError == TaskForceAIError("Request failed after maximum retries", NoStatus)

\* mutant of PollLoopCond: the loop has no bound
PollLoopCond_unbounded(n, mx) == TRUE

\* mutant of PollLoopCond: twice the iterations
PollLoopCond_doubled(n, mx) == n < 2 * mx

\* mutant of PollLoopCond: one iteration too many
PollLoopCond_offByOne(n, mx) == n <= mx

\* ---------------------------------------------------- index.ts, pure parts
\* for (let i = 0; i < max; i++)
PollLoopCond(n, mx) == n < mx

\* mutant of SignalCheck: the signal is not looked at
SignalCheck_skipped(aborted) == FALSE

\* if (sig?.aborted)
SignalCheck(aborted) == aborted

\* mutant of IsTerminal: 'failed' does not end the sequence
IsTerminal_completedOnly(s) == s.status = "completed"

\* ['completed', 'failed'].includes(s.status)
IsTerminal(s) == s.status \in {"completed", "failed"}

\* mutant of Observe: the callback is not invoked
Observe_dropped(log, s) == log

\* on?.(s): the observer sees s
Observe(log, s) == Append(log, s)

\* mutant of WaitResolves: the result is not looked at
WaitResolves_anyResult(s) == s.status = "completed"

\* if (s.status === 'completed' && s.result) return s
WaitResolves(s) == s.status = "completed" /\ Truthy(s.result)

\* mutant of WaitFails: 'completed' without a result counts as a failed task
WaitFails_orNoResult(s) ==
  s.status = "failed" \/ (s.status = "completed" /\ ~Truthy(s.result))

\* if (s.status === 'failed') throw new TaskForceAIError(s.error || 'Task failed')
WaitFails(s) == s.status = "failed"
TaskFailedError(s) ==
  TaskForceAIError(IF Truthy(s.error) THEN s.error ELSE "Task failed", NoStatus)

\* mutant of StreamCancelCheck: the flag is not looked at
StreamCancelCheck_ignored(c) == FALSE

\* if (cancel) throw new TaskForceAIError('Task stream cancelled')
StreamCancelCheck(c) == c

PollCancelledError == TaskForceAIError("Task polling cancelled", NoStatus)
DeadlineError == TaskForceAIError("Task did not complete within the expected time", NoStatus)
StreamCancelledError == TaskForceAIError("Task stream cancelled", NoStatus)

\* ------------------------------------------------ index.ts, the client client
MOCK_RESULT == "This is a mock response. Configure your API key to get real results."

\* arguments a caller can pass: prompts, task ids (Absent: not a string)
Prompts == {"", "   ", "Analyze data", Absent}
IdArgs == {"", "task_1", Absent}
\* the taskId field of a 2xx answer to POST /run
ResponseIds == {"task_1", Absent}
\* `mock-${Math.random().toString(36).slice(2, 10)}`
MockIds == {"mock-a", "mock-b"}
\* the keys this.mcc can hold
IdSpace == (IdArgs \ {"", Absent}) \cup MockIds

\* p.trim() for the prompts above
TrimPrompt(p) == IF p \in {"", "   "} THEN "" ELSE p

\* mutant of ValidPrompt: the prompt is not trimmed
ValidPrompt_untrimmed(p) == p # Absent /\ p # ""

\* if (typeof p !== 'string' || !p.trim()) throw ...
ValidPrompt(p) == p # Absent /\ TrimPrompt(p) # ""
PromptError == TaskForceAIError("Prompt must be a non-empty string", NoStatus)

\* if (!id || typeof id !== 'string') throw ...
ValidId(t) == t # "" /\ t # Absent
IdError == TaskForceAIError("Task ID must be a non-empty string", NoStatus)

\* mutant of Retryable: every endpoint is requested as retryable
Retryable_all(e) == TRUE

\* the third argument of this.req: '/run' and '/results/<id>' take the
\* default r = false, '/status/<id>' passes true
Retryable(e) == e = "status"

\* this.mcc, a Map<string, number>
NotInMap == -1
EmptyMap == [t \in IdSpace |-> NotInMap]
\* this.mcc.get(taskId) || 0
MccGet(m, t) == IF m[t] = NotInMap THEN 0 ELSE m[t]

MockProcessing == TaskStatus("processing", Absent, Absent)
MockCompleted == TaskStatus("completed", MOCK_RESULT, Absent)

\* mutant of MockStatus: the first two fetches answer 'processing'
MockStatus_late(count) == IF count < 2 THEN MockProcessing ELSE MockCompleted

\* mockResponse for '/status/<id>': if (count < 1) processing, else completed
MockStatus(count) == IF count < 1 THEN MockProcessing ELSE MockCompleted

\* mockResponse(e, method): the value returned and the map afterwards
MockData(e, m, t) ==
  IF e = "run" THEN MockProcessing
  ELSE IF e = "status" THEN MockStatus(MccGet(m, t))
  ELSE MockCompleted
MockMap(e, m, t, newId) ==
  IF e = "run" THEN [m EXCEPT ![newId] = 0]
  ELSE IF e = "status" THEN [m EXCEPT ![t] = MccGet(m, t) + 1]
  ELSE m

\* ------------------------------------------------ transport.ts, response hook
HookError == Rejection("hook", TRUE, "Error", "hook failed")

\* mutant of HookPropagates: the hook is called outside any try block
HookPropagates_unguarded(throws) == throws

\* try { responseHook(response.clone()) } catch { /* ignore */ }
HookPropagates(throws) == FALSE

\* mutant of ResponseEvents: the hook runs after the body was read
ResponseEvents_hookLast(st, h) ==
  <<IF ResponseOk(st) THEN "json" ELSE "text">> \o (IF h THEN <<"hook">> ELSE <<>>)

\* what makeRequest does with a response, in order: the hook call (when one
\* is configured), then response.text() in parseErrorMessage for a non-2xx
\* answer or response.json() for a 2xx one
ResponseEvents(st, h) ==
  (IF h THEN <<"hook">> ELSE <<>>) \o <<IF ResponseOk(st) THEN "json" ELSE "text">>

\* one loop iteration with the hook in place: h is whether a hook is
\* configured, throws whether this call of it throws
AttemptStepH(o, h, throws, r, att, maxR) ==
  IF o.kind = "response" /\ h /\ HookPropagates(throws)
    THEN CatchBlock(HookError, r, att, maxR)
    ELSE AttemptStep(o, r, att, maxR)

\* ------------------------------------------- index.ts, submitTask's body
\* An options mapping is a function from the keys the caller wrote to their
\* values; a key the caller left out is not in its domain.
EmptyMapping == [k \in {} |-> k]
Given(k, present, v) == IF present THEN k :> v ELSE EmptyMapping
Has(o, k) == k \in DOMAIN o
\* TaskSubmissionOptions (types.ts:22-30): vercelAiKey?: string, silent?:
\* boolean, mock?: boolean, modelId?: string
OptionMappings ==
  { Given("vercelAiKey", hv, v) @@ Given("silent", hs, s) @@ Given("mock", hm, m)
      @@ Given("modelId", hd, "model-1") :
      hv \in BOOLEAN, v \in {"", "gateway-key"}, hs \in BOOLEAN, s \in BOOLEAN,
      hm \in BOOLEAN, m \in BOOLEAN, hd \in BOOLEAN }

\* `silent: s = false`: the default replaces a key that is not there
OrDefault(o, k, d) == IF Has(o, k) THEN o[k] ELSE d
\* `...rest`: what the pattern did not name
RestOf(o) == [k \in DOMAIN o \ {"vercelAiKey", "silent", "mock"} |-> o[k]]

\* mutant of SubmitOptions: the whole mapping is spread into options
SubmitOptions_spreadAll(o) ==
  ("silent" :> OrDefault(o, "silent", FALSE)) @@ ("mock" :> OrDefault(o, "mock", FALSE)) @@ o

\* options: { silent: s, mock: m, ...rest }
SubmitOptions(o) ==
  ("silent" :> OrDefault(o, "silent", FALSE)) @@ ("mock" :> OrDefault(o, "mock", FALSE))
    @@ RestOf(o)

\* const body = { prompt: p, options: {...} }; if (v) body.vercelAiKey = v;
SubmitBody(p, o) ==
  LET v == OrDefault(o, "vercelAiKey", Absent)
  IN  ("prompt" :> p) @@ ("options" :> SubmitOptions(o))
        @@ Given("vercelAiKey", Truthy(v), v)

\* ------------------------------------------------ index.ts, file helpers
\* `Failed to upload file: ${response.status}` (no status code is passed)
UploadError(st) == TaskForceAIError("Failed to upload file: " \o ToString(st), NoStatus)
DownloadError(st) == TaskForceAIError("Failed to download file: " \o ToString(st), NoStatus)
\* a rejection of fetch leaves uploadFile / downloadFile as it is
RawError(o) == TaskForceAIError(o.message, NoStatus)

\* -------------------------------------------------------------- the state
VARIABLES
  op,           \* the call made on the client: none | makeRequest | submitTask |
                \* getTaskStatus | getTaskResult | wait | stream | uploadFile | downloadFile
  out,          \* the promise of that call (for a stream: of the pull being served)
  \* makeRequest, the invocation in progress
  tpc,          \* idle | fetch (awaiting fetch) | backoff (awaiting sleep)
  retryable,    \* its retryable argument
  maxRetries,   \* its maxRetries argument
  hasSignal,    \* options.signal was supplied
  attempt,      \* the loop variable
  trace,        \* what each fetch of this invocation settled to, in order
  delays,       \* the backoff sleeps of this invocation, in order
  tres,         \* the promise req returned
  hookCalls,    \* calls of config.responseHook made by this invocation
  events,       \* what was done with the latest response, in order
  hookThrew,    \* the hook threw on the latest response
  \* poll, the generator
  ppc,          \* none | awaiting | observed | yielded | sleeping | returned | thrown
  i,            \* the loop variable
  max,          \* its max argument
  sigAborted,   \* sig.aborted
  statusCalls,  \* getTaskStatus invocations made by the poller
  sleeps,       \* interval sleeps started by the poller
  fetched,      \* statuses getTaskStatus resolved with, in order
  seen,         \* statuses handed to the observer callback, in order
  yielded,      \* statuses the poller yielded, in order
  \* streamTaskStatus, the handle and its iterator
  spc,          \* none | notstarted | running | suspended | done
  cancel,       \* the closure's cancel flag
  cancelAtPull, \* the cancel flag as it was when the latest pull was made
  delivered,    \* statuses the stream iterator yielded to its consumer, in order
  iterators,    \* iterators obtained from the handle
  polls,        \* poll invocations started by the handle's iterators
  queued,       \* next() requests waiting in the generator's queue
  pulls,        \* next() requests the generator was resumed for
  \* the client object
  mockMode,     \* this.mm
  hook,         \* this.rh is set
  counting,     \* makeRequest's fetch calls are being counted
  requests,     \* the count
  sigAt,        \* where the poll stood when sig fired during it (kept when counting)
  mcc,          \* this.mcc
  mockFetches,  \* per task id, the '/status/<id>' answers mockResponse has given
  mres,         \* the latest of those answers
  netUsed,      \* fetch() has been called
  \* the call's arguments and what came back
  prompt,       \* p of submitTask / runTask / runTaskStream
  id,           \* the task id getTaskStatus / getTaskResult / poll is called with
  subId,        \* the taskId submitTask resolved with
  via,          \* the composition the call belongs to: "" | runTask | runTaskStream
  rawStatus,    \* status of the response uploadFile / downloadFile received
  \* parseErrorMessage applied on its own
  pIn,          \* a non-2xx response and the position in the attempt loop
  pOut,         \* the message parsed and how the loop iteration ends
  \* submitTask's request body on its own
  sIn,          \* the prompt and the options mapping submitTask is called with
  sOut          \* the body it hands to req, or that it threw before building one

tvars == <<tpc, retryable, maxRetries, hasSignal, attempt, trace, delays, tres,
           hookCalls, events, hookThrew>>
pvars == <<ppc, i, max, sigAborted, statusCalls, sleeps, fetched, seen, yielded>>
svars == <<spc, cancel, cancelAtPull, delivered>>
ivars == <<iterators, polls, queued, pulls>>
config == <<mockMode, hook, counting>>
mvars == <<mcc, mockFetches, mres>>
avars == <<prompt, id, subId, via, rawStatus>>
qvars == <<pIn, pOut, sIn, sOut>>
vars == <<op, out, tvars, pvars, svars, ivars, config, mvars, netUsed, requests, sigAt,
          avars, qvars>>

NotFired == [set |-> FALSE, settled |-> 0, requests |-> 0, seen |-> 0, yielded |-> 0,
             statusCalls |-> 0]
NoInput == [status |-> 0, body |-> NoBody, retryable |-> FALSE, attempt |-> 0]
NoOutput == [message |-> "", step |-> StepRetry, applied |-> FALSE]
NoSubmission == [prompt |-> "", options |-> EmptyMapping]
NoRequestBody == [applied |-> FALSE, sent |-> FALSE, body |-> EmptyMapping]

\* the client after construction with options {mockMode: mm, responseHook:
\* rh ? f : undefined}, nothing called yet
Constructed(mm, rh) ==
  /\ op = "none"
  /\ out = Idle
  /\ tpc = "idle"
  /\ retryable = FALSE
  /\ maxRetries = DEFAULT_MAX_RETRIES
  /\ hasSignal = FALSE
  /\ attempt = 0
  /\ trace = <<>>
  /\ delays = <<>>
  /\ tres = Idle
  /\ hookCalls = 0
  /\ events = <<>>
  /\ hookThrew = FALSE
  /\ ppc = "none"
  /\ i = 0
  /\ max = 0
  /\ sigAborted = FALSE
  /\ statusCalls = 0
  /\ sleeps = 0
  /\ fetched = <<>>
  /\ seen = <<>>
  /\ yielded = <<>>
  /\ spc = "none"
  /\ cancel = FALSE
  /\ cancelAtPull = FALSE
  /\ delivered = <<>>
  /\ iterators = 0
  /\ polls = 0
  /\ queued = 0
  /\ pulls = 0
  /\ mockMode = mm
  /\ hook = rh
  /\ mcc = EmptyMap
  /\ mockFetches = [t \in IdSpace |-> 0]
  /\ mres = NoData
  /\ netUsed = FALSE
  /\ requests = 0
  /\ sigAt = NotFired
  /\ prompt = ""
  /\ id = ""
  /\ subId = ""
  /\ via = ""
  /\ rawStatus = 0

\* a client built without a responseHook, in real or in mock mode
Init ==
  /\ \E mm \in BOOLEAN : Constructed(mm, FALSE)
  /\ pIn = NoInput
  /\ pOut = NoOutput
  /\ counting = FALSE
  /\ sIn = NoSubmission
  /\ sOut = NoRequestBody

\* a real-mode client built with a responseHook
InitHook ==
  /\ Constructed(FALSE, TRUE)
  /\ pIn = NoInput
  /\ pOut = NoOutput
  /\ counting = FALSE
  /\ sIn = NoSubmission
  /\ sOut = NoRequestBody

\* one more call of fetch by makeRequest
Counted(n) == IF counting THEN n + 1 ELSE n

\* ------------------------------------------------------------- makeRequest
\* makeRequest(endpoint, options, config, r, mr) up to its first await:
\* attempt = 0 passes the loop test and fetch is issued.
EnterMakeRequest(r, mr, sig) ==
  /\ retryable' = r
  /\ maxRetries' = mr
  /\ hasSignal' = sig
  /\ attempt' = 0
  /\ trace' = <<>>
  /\ delays' = <<>>
  /\ hookCalls' = 0
  /\ events' = <<>>
  /\ hookThrew' = FALSE
  /\ IF AttemptLoopCond(0, mr)
       THEN /\ tpc' = "fetch" /\ tres' = Pending /\ netUsed' = TRUE
            /\ requests' = Counted(requests)
       ELSE tpc' = "idle" /\ tres' = Rejected(MaxRetriesError) /\ UNCHANGED <<netUsed, requests>>

\* mutant of InitHasSignal: the poller's signal is handed on to fetch
InitHasSignal_forwarded == TRUE

\* the init the client's calls hand to req carries no signal: {} for
\* getTaskStatus and getTaskResult, {method, body} for submitTask
InitHasSignal == FALSE

\* what req can change
reqvars == <<tvars, mvars, netUsed, requests>>

\* req (index.ts:255-267) for endpoint e ("run" | "status" | "results") of
\* task t.  In mock mode the promise is Promise.resolve(mockResponse(...)),
\* newId being the id Math.random gives a POST /run; in real mode it is
\* makeRequest with def.maxRetries and an init that never carries a signal.
req(e, t, newId) ==
  IF mockMode
    THEN /\ tres' = Resolved(MockData(e, mcc, t))
         /\ mcc' = MockMap(e, mcc, t, newId)
         /\ mockFetches' = IF e = "status" THEN [mockFetches EXCEPT ![t] = @ + 1]
                                           ELSE mockFetches
         /\ mres' = IF e = "status" THEN MockData(e, mcc, t) ELSE mres
         /\ UNCHANGED <<tpc, retryable, maxRetries, hasSignal, attempt, trace, delays>>
         /\ UNCHANGED <<hookCalls, events, hookThrew, netUsed, requests>>
    ELSE /\ EnterMakeRequest(Retryable(e), DEFAULT_MAX_RETRIES, InitHasSignal)
         /\ UNCHANGED mvars

\* a direct call of the exported makeRequest, with the transport config of
\* the real-mode client
CallMakeRequest ==
  /\ op = "none"
  /\ ~mockMode
  /\ \E r \in BOOLEAN, mr \in 0..MaxRetriesBound, sig \in BOOLEAN :
       EnterMakeRequest(r, mr, sig)
  /\ op' = "makeRequest"
  /\ out' = Pending
  /\ UNCHANGED <<pvars, svars, config, mvars, avars, qvars, sigAt, ivars>>

\* submitTask(p, o) (index.ts:269-278) up to its first await; in mock mode
\* the awaited promise is already resolved and the call resolves with its
\* taskId
SubmitTask(p, newId) ==
  /\ op' = "submitTask"
  /\ prompt' = p
  /\ IF ValidPrompt(p)
       THEN /\ req("run", "", newId)
            /\ out' = IF mockMode THEN Resolved(MockData("run", mcc, "")) ELSE Pending
            /\ subId' = IF mockMode THEN newId ELSE subId
       ELSE /\ out' = Rejected(PromptError)
            /\ UNCHANGED <<reqvars, subId>>

\* client.submitTask(p)
CallSubmitTask ==
  /\ op = "none"
  /\ \E p \in Prompts, newId \in MockIds : SubmitTask(p, newId)
  /\ UNCHANGED <<pvars, svars, config, id, via, rawStatus, qvars, sigAt, ivars>>

\* getTaskStatus(id) / getTaskResult(id) (index.ts:280-289) for endpoint e
GetById(e, t) ==
  /\ id' = t
  /\ IF ValidId(t)
       THEN /\ req(e, t, "")
            /\ out' = IF mockMode THEN Resolved(MockData(e, mcc, t)) ELSE Pending
       ELSE /\ out' = Rejected(IdError)
            /\ UNCHANGED reqvars

\* client.getTaskStatus(id)
CallGetTaskStatus ==
  /\ op = "none"
  /\ op' = "getTaskStatus"
  /\ \E t \in IdArgs : GetById("status", t)
  /\ statusCalls' = statusCalls + 1
  /\ UNCHANGED <<ppc, i, max, sigAborted, sleeps, fetched, seen, yielded, svars>>
  /\ UNCHANGED <<config, prompt, subId, via, rawStatus, qvars, sigAt, ivars>>

\* client.getTaskResult(id)
CallGetTaskResult ==
  /\ op = "none"
  /\ op' = "getTaskResult"
  /\ \E t \in IdArgs : GetById("results", t)
  /\ UNCHANGED <<pvars, svars, config, prompt, subId, via, rawStatus, qvars, sigAt, ivars>>

Direct == op \in {"makeRequest", "submitTask", "getTaskStatus", "getTaskResult"}

\* the outstanding fetch settles to o; the loop body runs to its next await.
\* throws: this call of the response hook throws; tid: the taskId of the
\* answer to POST /run.
FetchSettle ==
  /\ tpc = "fetch"
  /\ \E o \in FetchOutcomes(hasSignal),
        throws \in (IF hook THEN BOOLEAN ELSE {FALSE}),
        tid \in (IF op = "submitTask" THEN ResponseIds ELSE {Absent}) :
       LET st == AttemptStepH(o, hook, throws, retryable, attempt, maxRetries)
           called == hook /\ o.kind = "response"
       IN
         /\ trace' = Append(trace, Tag(o))
         /\ hookCalls' = IF called THEN hookCalls + 1 ELSE hookCalls
         /\ events' = IF o.kind = "response" THEN ResponseEvents(o.status, hook) ELSE <<>>
         /\ hookThrew' = (called /\ throws)
         /\ IF st.act = "retry"
              THEN /\ tpc' = "backoff"
                   /\ delays' = Append(delays, BackoffDelay(attempt))
                   /\ UNCHANGED <<tres, out, fetched, subId>>
              ELSE /\ tpc' = "idle"
                   /\ tres' = IF st.act = "return" THEN Resolved(st.data) ELSE Rejected(st.error)
                   /\ out' = IF Direct THEN tres' ELSE out
                   /\ fetched' = IF ~Direct /\ st.act = "return"
                                   THEN Append(fetched, st.data) ELSE fetched
                   /\ subId' = IF op = "submitTask" /\ st.act = "return" THEN tid ELSE subId
                   /\ UNCHANGED delays
  /\ UNCHANGED <<op, retryable, maxRetries, hasSignal, attempt>>
  /\ UNCHANGED <<ppc, i, max, sigAborted, statusCalls, sleeps, seen, yielded, svars>>
  /\ UNCHANGED <<config, mvars, netUsed, requests, prompt, id, via, rawStatus, qvars, sigAt, ivars>>

\* the backoff sleep ends: `continue`, attempt += 1, the loop test, the next
\* fetch; or the loop ends and line 255 throws
BackoffDone ==
  /\ tpc = "backoff"
  /\ attempt' = attempt + 1
  /\ IF AttemptLoopCond(attempt + 1, maxRetries)
       THEN tpc' = "fetch" /\ requests' = Counted(requests) /\ UNCHANGED <<tres, out>>
       ELSE /\ tpc' = "idle"
            /\ tres' = Rejected(MaxRetriesError)
            /\ out' = IF Direct THEN tres' ELSE out
            /\ UNCHANGED requests
  /\ UNCHANGED <<op, retryable, maxRetries, hasSignal, trace, delays, pvars, svars>>
  /\ UNCHANGED <<hookCalls, events, hookThrew, config, mvars, netUsed, avars, qvars, sigAt, ivars>>

\* -------------------------------------------------------------------- poll
\* The generator is driven by one consumer, `mode`: waitForCompletion's
\* for-await ("wait") or the stream's generator ("stream").

\* mutant of Rethrown: the consumer wraps what the poller threw
Rethrown_wrapped(e) == TaskForceAIError(e.message, NoStatus)

\* an error thrown inside `for await (const s of this.poll(...))` leaves the
\* loop, which has no try/catch around it, as the object it is
Rethrown(e) == e

\* poll throws e: the consumer's for-await rethrows it, which rejects the
\* waitForCompletion promise, or ends the stream generator and rejects the pull
PollThrows(e, mode) ==
  /\ ppc' = "thrown"
  /\ out' = Rejected(Rethrown(e))
  /\ spc' = IF mode = "stream" THEN "done" ELSE spc

\* poll returns: the for-await ends; waitForCompletion reaches its final
\* throw (index.ts:320), the stream generator finishes
PollReturns(mode) ==
  /\ ppc' = "returned"
  /\ out' = IF mode = "stream" THEN Finished ELSE Rejected(DeadlineError)
  /\ spc' = IF mode = "stream" THEN "done" ELSE spc

\* the consumer stays suspended on the generator
StillRunning(mode) ==
  /\ out' = Pending
  /\ spc' = IF mode = "stream" THEN "running" ELSE spc

\* the head of the for loop with i = n, up to `await this.getTaskStatus(t)`
\* (index.ts:298-300), or the throw after the loop (index.ts:306).  A task id
\* that getTaskStatus refuses makes the awaited promise a rejected one; in
\* mock mode it is a resolved one.
PollLoopHead(n, mx, mode, aborted, t) ==
  /\ i' = n
  /\ IF PollLoopCond(n, mx)
       THEN IF SignalCheck(aborted)
              THEN /\ PollThrows(PollCancelledError, mode)
                   /\ UNCHANGED <<reqvars, statusCalls, fetched>>
              ELSE /\ statusCalls' = statusCalls + 1
                   /\ IF ValidId(t)
                        THEN /\ req("status", t, "")
                             /\ ppc' = "awaiting"
                             /\ StillRunning(mode)
                             /\ fetched' = IF mockMode
                                             THEN Append(fetched, MockData("status", mcc, t))
                                             ELSE fetched
                        ELSE /\ PollThrows(IdError, mode)
                             /\ UNCHANGED <<reqvars, fetched>>
       ELSE /\ PollThrows(DeadlineError, mode)
            /\ UNCHANGED <<reqvars, statusCalls, fetched>>

\* the generator is resumed after `yield s` (index.ts:303-304)
PollResume(s, mode) ==
  IF IsTerminal(s)
    THEN PollReturns(mode) /\ UNCHANGED sleeps
    ELSE ppc' = "sleeping" /\ sleeps' = sleeps + 1 /\ StillRunning(mode)

\* getTaskStatus settled: a rejection leaves the generator as a throw,
\* a status goes to the observer (index.ts:300-301)
PollObserve ==
  /\ ppc = "awaiting"
  /\ tres.state \in {"resolved", "rejected"}
  /\ IF tres.state = "rejected"
       THEN PollThrows(tres.error, op) /\ UNCHANGED seen
       ELSE seen' = Observe(seen, tres.data) /\ ppc' = "observed" /\ UNCHANGED <<out, spc>>
  \* the makeRequest invocation is over and its locals are gone
  /\ attempt' = 0
  /\ trace' = <<>>
  /\ delays' = <<>>
  /\ hookCalls' = 0
  /\ events' = <<>>
  /\ hookThrew' = FALSE
  /\ UNCHANGED <<op, tpc, retryable, maxRetries, hasSignal, tres>>
  /\ UNCHANGED <<i, max, sigAborted, statusCalls, sleeps, fetched, yielded>>
  /\ UNCHANGED <<cancel, cancelAtPull, delivered>>
  /\ UNCHANGED <<config, mvars, netUsed, requests, avars, qvars, sigAt, ivars>>

\* yield s (index.ts:302)
PollYield ==
  /\ ppc = "observed"
  /\ ppc' = "yielded"
  /\ yielded' = Append(yielded, tres.data)
  /\ UNCHANGED <<op, out, tvars, i, max, sigAborted, statusCalls, sleeps, fetched, seen, svars>>
  /\ UNCHANGED <<config, mvars, netUsed, requests, avars, qvars, sigAt, ivars>>

\* await sleep(ms) ends: i++ and the next iteration
SleepDone ==
  /\ ppc = "sleeping"
  /\ PollLoopHead(i + 1, max, op, sigAborted, id)
  /\ UNCHANGED <<op, max, sigAborted, sleeps, seen, yielded>>
  /\ UNCHANGED <<cancel, cancelAtPull, delivered>>
  /\ UNCHANGED <<config, avars, qvars, sigAt, ivars>>

\* the external AbortSignal handed to poll fires (runTask hands none on)
AbortSig ==
  /\ op \in {"wait", "stream"}
  /\ via # "runTask"
  /\ ~sigAborted
  /\ sigAborted' = TRUE
  /\ sigAt' = IF counting
                THEN [set |-> TRUE, settled |-> Len(trace), requests |-> requests,
                      seen |-> Len(seen), yielded |-> Len(yielded),
                      statusCalls |-> statusCalls]
                ELSE sigAt
  /\ UNCHANGED <<op, out, tvars, ppc, i, max, statusCalls, sleeps, fetched, seen, yielded, svars>>
  /\ UNCHANGED <<config, mvars, netUsed, requests, avars, qvars, ivars>>

\* ------------------------------------------------------- waitForCompletion
\* waitForCompletion(id, ms, mx, on, sig) up to its first await
CallWaitForCompletion ==
  /\ op = "none"
  /\ op' = "wait"
  /\ \E t \in IdArgs, mx \in 0..MaxPollAttempts, ab \in BOOLEAN :
       /\ id' = t
       /\ max' = mx
       /\ sigAborted' = ab          \* sig may have fired before the call
       /\ PollLoopHead(0, mx, "wait", ab, t)
  /\ UNCHANGED <<sleeps, seen, yielded, cancel, cancelAtPull, delivered>>
  /\ UNCHANGED <<config, prompt, subId, via, rawStatus, qvars, sigAt, ivars>>

\* the body of its for-await for the status just yielded (index.ts:316-320)
WaitReceive ==
  /\ op = "wait"
  /\ ppc = "yielded"
  /\ LET s == yielded[Len(yielded)] IN
       IF WaitResolves(s)
         THEN out' = Resolved(s) /\ ppc' = "returned" /\ UNCHANGED <<spc, sleeps>>
       ELSE IF WaitFails(s)
         THEN out' = Rejected(TaskFailedError(s)) /\ ppc' = "returned" /\ UNCHANGED <<spc, sleeps>>
       ELSE PollResume(s, "wait")
  /\ UNCHANGED <<op, tvars, i, max, sigAborted, statusCalls, fetched, seen, yielded>>
  /\ UNCHANGED <<cancel, cancelAtPull, delivered>>
  /\ UNCHANGED <<config, mvars, netUsed, requests, avars, qvars, sigAt, ivars>>

\* -------------------------------------------------------- streamTaskStatus
\* streamTaskStatus(t, ms, mx, on, sig) (index.ts:333-353): the id check
\* throws out of the call itself; otherwise the handle is returned and the
\* consumer obtains an iterator from it, stream[Symbol.asyncIterator]()
StreamTaskStatus(t) ==
  /\ op' = "stream"
  /\ id' = t
  /\ IF ValidId(t)
       THEN spc' = "notstarted" /\ cancel' = FALSE /\ out' = Idle /\ iterators' = 1
       ELSE out' = Rejected(IdError) /\ UNCHANGED <<spc, cancel, iterators>>

\* client.streamTaskStatus(id, ms, mx, on, sig)
CallStreamTaskStatus ==
  /\ op = "none"
  /\ \E t \in IdArgs, mx \in 0..MaxPollAttempts, ab \in BOOLEAN :
       /\ StreamTaskStatus(t)
       /\ max' = mx
       /\ sigAborted' = ab          \* sig may have fired before the call
  /\ UNCHANGED <<tvars, ppc, i, statusCalls, sleeps, fetched, seen, yielded>>
  /\ UNCHANGED <<cancelAtPull, delivered, polls, queued, pulls>>
  /\ UNCHANGED <<config, mvars, netUsed, requests, prompt, subId, via, rawStatus, qvars, sigAt>>

\* stream.cancel()
Cancel ==
  /\ op = "stream"
  /\ spc # "none"
  /\ cancel' = TRUE
  /\ UNCHANGED <<op, out, tvars, pvars, spc, cancelAtPull, delivered>>
  /\ UNCHANGED <<config, mvars, netUsed, requests, avars, qvars, sigAt, ivars>>

\* The generator is resumed for a next() request: a generator that has not
\* started runs to poll's first await (this is where poll is invoked), one
\* parked at `yield s` resumes poll, a finished one answers done.
ServeRequest ==
  /\ cancelAtPull' = cancel
  /\ polls' = IF spc = "notstarted" THEN polls + 1 ELSE polls
  /\ pulls' = IF spc \in {"notstarted", "suspended"} THEN pulls + 1 ELSE pulls
  /\ IF spc = "notstarted"
       THEN PollLoopHead(0, max, "stream", sigAborted, id) /\ UNCHANGED sleeps
     ELSE IF spc = "suspended"
       THEN /\ PollResume(yielded[Len(yielded)], "stream")
            /\ UNCHANGED <<reqvars, i, statusCalls, fetched>>
     ELSE out' = Finished /\ UNCHANGED <<spc, ppc, reqvars, i, statusCalls, sleeps, fetched>>
  /\ UNCHANGED <<op, max, sigAborted, seen, yielded, cancel, delivered, iterators>>
  /\ UNCHANGED <<config, avars, qvars, sigAt>>

\* iterator.next() on the stream's generator while no pull is outstanding
Pull ==
  /\ op = "stream"
  /\ spc # "none"
  /\ out.state # "pending"
  /\ queued = 0
  /\ ServeRequest
  /\ UNCHANGED queued

\* mutant of ResumesAtOnce: next() re-enters a generator that is executing
ResumesAtOnce_reentrant(genState) == TRUE

\* An async generator object resumes for next() only when it is not
\* executing; a request made while it executes waits in its queue.
ResumesAtOnce(genState) == genState # "running"

\* iterator.next() while an earlier pull is still outstanding
QueuePull ==
  /\ op = "stream"
  /\ spc = "running"
  /\ queued < MaxQueuedPulls
  /\ IF ResumesAtOnce(spc)
       THEN \* the loop would be entered again under the running iteration
            /\ PollLoopHead(i + 1, max, "stream", sigAborted, id)
            /\ UNCHANGED <<sleeps, queued>>
       ELSE /\ queued' = queued + 1
            /\ UNCHANGED <<out, reqvars, ppc, i, statusCalls, sleeps, fetched, spc>>
  /\ UNCHANGED <<op, max, sigAborted, seen, yielded, cancel, cancelAtPull, delivered>>
  /\ UNCHANGED <<iterators, polls, pulls, config, avars, qvars, sigAt>>

\* the pull being served has settled and a request is waiting: the generator
\* goes on for it
ServeQueued ==
  /\ op = "stream"
  /\ out.state # "pending"
  /\ queued > 0
  /\ ServeRequest
  /\ queued' = queued - 1

\* stream[Symbol.asyncIterator]() once more: a new generator object, whose
\* poll has not been invoked; the consumer leaves the earlier iterator where
\* it is.  What was fetched, seen, yielded and delivered is from here on that
\* of the new iterator; the cancel flag is the handle's.
NewIterator ==
  /\ op = "stream"
  /\ spc # "none"
  /\ out.state # "pending"
  /\ queued = 0
  /\ iterators < MaxIterators
  /\ iterators' = iterators + 1
  /\ spc' = "notstarted"
  /\ out' = Idle
  /\ ppc' = "none"
  /\ i' = 0
  /\ statusCalls' = 0
  /\ sleeps' = 0
  /\ fetched' = <<>>
  /\ seen' = <<>>
  /\ yielded' = <<>>
  /\ delivered' = <<>>
  /\ cancelAtPull' = FALSE
  /\ pulls' = 0
  /\ UNCHANGED <<op, tvars, max, sigAborted, cancel, polls, queued>>
  /\ UNCHANGED <<config, mvars, netUsed, requests, avars, qvars, sigAt>>

\* mutant of ParksAtYield: the generator runs on after handing out a status
ParksAtYield_eager == FALSE

\* `yield s` (index.ts:349) settles the pull being served and parks the
\* generator until the next request
ParksAtYield == TRUE

\* the body of the stream generator's for-await for the status just yielded
\* by poll (index.ts:347-350)
StreamReceive ==
  /\ op = "stream"
  /\ spc = "running"
  /\ ppc = "yielded"
  /\ LET s == yielded[Len(yielded)] IN
       IF StreamCancelCheck(cancel)
         THEN /\ out' = Rejected(StreamCancelledError)
              /\ ppc' = "returned"
              /\ spc' = "done"
              /\ UNCHANGED <<delivered, sleeps>>
         ELSE /\ delivered' = Append(delivered, s)
              /\ IF ParksAtYield
                   THEN /\ out' = Resolved(s)
                        /\ spc' = "suspended"
                        /\ UNCHANGED <<ppc, sleeps>>
                   ELSE \* the loop would go on for a status nobody asked for
                        PollResume(s, "stream")
  /\ UNCHANGED <<op, tvars, i, max, sigAborted, statusCalls, fetched, seen, yielded>>
  /\ UNCHANGED <<cancel, cancelAtPull>>
  /\ UNCHANGED <<config, mvars, netUsed, requests, avars, qvars, sigAt, ivars>>

\* ------------------------------------------------- runTask, runTaskStream
\* mutant of ComposeId: the poller is given a fixed id
ComposeId_fixed(submitted) == "task_1"

\* the id handed on: waitForCompletion(await this.submitTask(p, o), ...),
\* streamTaskStatus(await this.submitTask(p, o), ...)
ComposeId(submitted) == submitted

\* runTask(p, o, ms, mx, on) (index.ts:323-331) up to its first await
CallRunTask ==
  /\ op = "none"
  /\ \E p \in Prompts, newId \in MockIds, mx \in 0..MaxPollAttempts :
       /\ SubmitTask(p, newId)
       /\ max' = mx
  /\ via' = "runTask"
  /\ UNCHANGED <<ppc, i, sigAborted, statusCalls, sleeps, fetched, seen, yielded, svars>>
  /\ UNCHANGED <<config, id, rawStatus, qvars, sigAt, ivars>>

\* runTaskStream(p, o, ms, mx, on, sig) (index.ts:355-364) up to its first await
CallRunTaskStream ==
  /\ op = "none"
  /\ \E p \in Prompts, newId \in MockIds, mx \in 0..MaxPollAttempts :
       /\ SubmitTask(p, newId)
       /\ max' = mx
  /\ via' = "runTaskStream"
  /\ UNCHANGED <<ppc, i, sigAborted, statusCalls, sleeps, fetched, seen, yielded, svars>>
  /\ UNCHANGED <<config, id, rawStatus, qvars, sigAt, ivars>>

\* runTask after `await this.submitTask(p, o)` resolved: waitForCompletion
\* is entered with the id submitted and no signal
RunTaskContinue ==
  /\ op = "submitTask"
  /\ via = "runTask"
  /\ out.state = "resolved"
  /\ op' = "wait"
  /\ id' = ComposeId(subId)
  /\ PollLoopHead(0, max, "wait", FALSE, ComposeId(subId))
  /\ UNCHANGED <<max, sigAborted, sleeps, seen, yielded, cancel, cancelAtPull, delivered>>
  /\ UNCHANGED <<config, prompt, subId, via, rawStatus, qvars, sigAt, ivars>>

\* runTaskStream after `await this.submitTask(p, o)` resolved:
\* streamTaskStatus is called with the id submitted
RunTaskStreamContinue ==
  /\ op = "submitTask"
  /\ via = "runTaskStream"
  /\ out.state = "resolved"
  /\ StreamTaskStatus(ComposeId(subId))
  /\ \E ab \in BOOLEAN : sigAborted' = ab     \* sig may have fired by now
  /\ UNCHANGED <<tvars, ppc, i, max, statusCalls, sleeps, fetched, seen, yielded>>
  /\ UNCHANGED <<cancelAtPull, delivered, polls, queued, pulls>>
  /\ UNCHANGED <<config, mvars, netUsed, requests, prompt, subId, via, rawStatus, qvars, sigAt>>

\* ---------------------------------------------------- mock mode, other callers
\* another caller that holds the task id calls getTaskStatus on the same
\* mock-mode client (the id of a composed call is not known outside it)
KnownId == IF op = "submitTask" THEN subId ELSE id
ConcurrentGetTaskStatus ==
  /\ mockMode
  /\ via = ""
  /\ op \in {"submitTask", "getTaskStatus", "wait", "stream"}
  /\ KnownId \in IdSpace
  /\ mockFetches[KnownId] < MaxMockFetches
  /\ mcc' = MockMap("status", mcc, KnownId, "")
  /\ mockFetches' = [mockFetches EXCEPT ![KnownId] = @ + 1]
  /\ mres' = MockData("status", mcc, KnownId)
  /\ UNCHANGED <<op, out, tvars, pvars, svars, config, netUsed, requests, avars, qvars, sigAt, ivars>>

\* ------------------------------------------------ uploadFile, downloadFile
\* uploadFile / downloadFile (index.ts:407-433, 447-459) up to `await fetch(...)`;
\* neither looks at this.mm
CallUploadFile ==
  /\ op = "none"
  /\ op' = "uploadFile"
  /\ out' = Pending
  /\ netUsed' = TRUE
  /\ UNCHANGED <<tvars, pvars, svars, config, mvars, requests, avars, qvars, sigAt, ivars>>

CallDownloadFile ==
  /\ op = "none"
  /\ op' = "downloadFile"
  /\ out' = Pending
  /\ netUsed' = TRUE
  /\ UNCHANGED <<tvars, pvars, svars, config, mvars, requests, avars, qvars, sigAt, ivars>>

\* what that fetch, which carries no signal, can settle to
FileFetchOutcomes ==
  { Response(st, NoBody) : st \in {200} \cup ErrorStatuses } \cup NetworkFailures

\* the fetch of uploadFile / downloadFile settles
FileFetchSettle ==
  /\ op \in {"uploadFile", "downloadFile"}
  /\ out.state = "pending"
  /\ \E o \in FileFetchOutcomes :
       /\ rawStatus' = o.status
       /\ out' = IF o.kind # "response" THEN Rejected(RawError(o))
                 ELSE IF ResponseOk(o.status) THEN Resolved(NoData)
                 ELSE IF op = "uploadFile" THEN Rejected(UploadError(o.status))
                 ELSE Rejected(DownloadError(o.status))
  /\ UNCHANGED <<op, tvars, pvars, svars, config, mvars, netUsed, requests, prompt, id, subId, via, qvars, sigAt, ivars>>

\* ------------------------------------------- parseErrorMessage on its own
\* the non-2xx answers parseErrorMessage is applied to
ParseStatuses == {400, 401, 404, 429, 500, 503}
ParseBodies ==
  ErrorBodies \cup
  { Body("{\"error\":\"Not found\",\"message\":\"oops\"}", TRUE, TRUE, "Not found", "oops", NoData),
    Body("{\"error\":\"\"}", TRUE, TRUE, "", Absent, NoData),
    Body("{\"error\":42,\"message\":\"oops\"}", TRUE, TRUE, NonString, "oops", NoData),
    Body("{}", TRUE, TRUE, Absent, Absent, NoData),
    Body("[1,2]", TRUE, TRUE, Absent, Absent, NoData),
    Body("null", TRUE, FALSE, Absent, Absent, NoData),
    Body("\"oops\"", TRUE, FALSE, Absent, Absent, NoData),
    Body(" Bad gateway ", FALSE, FALSE, Absent, Absent, NoData),
    Body("", FALSE, FALSE, Absent, Absent, NoData),
    Body(Unreadable, FALSE, FALSE, Absent, Absent, NoData) }
ParseInputs ==
  { [status |-> st, body |-> b, retryable |-> r, attempt |-> a] :
      st \in ParseStatuses, b \in ParseBodies, r \in BOOLEAN, a \in {0, DEFAULT_MAX_RETRIES} }

InitParse ==
  /\ Constructed(FALSE, FALSE)
  /\ pIn \in ParseInputs
  /\ pOut = NoOutput
  /\ counting = FALSE
  /\ sIn = NoSubmission
  /\ sOut = NoRequestBody

\* makeRequest's handling of the non-2xx response pIn (transport.ts:223-232):
\* the message is parsed, then the iteration retries or throws
ApplyParse ==
  /\ ~pOut.applied
  /\ pOut' = [message |-> parseErrorMessage(pIn.status, pIn.body),
              step |-> AttemptStep(Response(pIn.status, pIn.body), pIn.retryable,
                                   pIn.attempt, DEFAULT_MAX_RETRIES),
              applied |-> TRUE]
  /\ UNCHANGED <<op, out, tvars, pvars, svars, config, mvars, netUsed, requests, avars, pIn, sIn, sOut, ivars, sigAt>>

NextParse == ApplyParse
SpecParse == InitParse /\ [][NextParse]_vars

\* --------------------------------------------- submitTask's body on its own
SubmitInputs == { [prompt |-> p, options |-> o] : p \in Prompts, o \in OptionMappings }

InitSubmit ==
  /\ Constructed(FALSE, FALSE)
  /\ pIn = NoInput
  /\ pOut = NoOutput
  /\ counting = FALSE
  /\ sIn \in SubmitInputs
  /\ sOut = NoRequestBody

\* submitTask(sIn.prompt, sIn.options) up to its call of req (index.ts:269-275):
\* the prompt is validated, then the body is built and serialised
ApplySubmit ==
  /\ ~sOut.applied
  /\ sOut' = IF ValidPrompt(sIn.prompt)
               THEN [applied |-> TRUE, sent |-> TRUE,
                     body |-> SubmitBody(sIn.prompt, sIn.options)]
               ELSE [applied |-> TRUE, sent |-> FALSE, body |-> EmptyMapping]
  /\ UNCHANGED <<op, out, tvars, pvars, svars, config, mvars, netUsed, requests, avars, pIn, pOut, sIn, ivars, sigAt>>

NextSubmit == ApplySubmit
SpecSubmit == InitSubmit /\ [][NextSubmit]_vars

\* ---------------------------------------------------------------- the spec
Next ==
  \/ CallMakeRequest
  \/ CallSubmitTask
  \/ CallGetTaskStatus
  \/ CallGetTaskResult
  \/ FetchSettle
  \/ BackoffDone
  \/ CallWaitForCompletion
  \/ WaitReceive
  \/ CallStreamTaskStatus
  \/ Pull
  \/ Cancel
  \/ StreamReceive
  \/ PollObserve
  \/ PollYield
  \/ SleepDone
  \/ AbortSig
  \/ CallRunTask
  \/ CallRunTaskStream
  \/ RunTaskContinue
  \/ RunTaskStreamContinue
  \/ ConcurrentGetTaskStatus
  \/ CallUploadFile
  \/ CallDownloadFile
  \/ FileFetchSettle

Spec == Init /\ [][Next]_vars

\* The stream with a consumer that obtains further iterators from the handle.
NextIterators ==
  \/ CallStreamTaskStatus
  \/ Pull
  \/ NewIterator
  \/ Cancel
  \/ StreamReceive
  \/ PollObserve
  \/ PollYield
  \/ SleepDone
  \/ AbortSig
  \/ FetchSettle
  \/ BackoffDone

SpecIterators == Init /\ [][NextIterators]_vars

\* The stream with a consumer that also pulls without awaiting the pull before.
NextConsumer ==
  \/ CallStreamTaskStatus
  \/ Pull
  \/ QueuePull
  \/ ServeQueued
  \/ Cancel
  \/ StreamReceive
  \/ PollObserve
  \/ PollYield
  \/ SleepDone
  \/ AbortSig
  \/ FetchSettle
  \/ BackoffDone

SpecConsumer == Init /\ [][NextConsumer]_vars

\* waitForCompletion on a real-mode client, the calls of fetch counted.
InitCount ==
  /\ Constructed(FALSE, FALSE)
  /\ pIn = NoInput
  /\ pOut = NoOutput
  /\ counting = TRUE
  /\ sIn = NoSubmission
  /\ sOut = NoRequestBody

NextCount ==
  \/ CallWaitForCompletion
  \/ WaitReceive
  \/ PollObserve
  \/ PollYield
  \/ SleepDone
  \/ AbortSig
  \/ FetchSettle
  \/ BackoffDone

SpecCount == InitCount /\ [][NextCount]_vars

\* waitForCompletion and the stream with a scheduler that is fair: a fetch
\* that is outstanding settles, a timer that was set fires, a continuation
\* that is ready runs, and the consumer of a stream goes on pulling.
NextPoll ==
  \/ CallWaitForCompletion
  \/ WaitReceive
  \/ CallStreamTaskStatus
  \/ Pull
  \/ Cancel
  \/ StreamReceive
  \/ PollObserve
  \/ PollYield
  \/ SleepDone
  \/ AbortSig
  \/ FetchSettle
  \/ BackoffDone

Fairness ==
  /\ WF_vars(FetchSettle)
  /\ WF_vars(BackoffDone)
  /\ WF_vars(SleepDone)
  /\ WF_vars(PollObserve)
  /\ WF_vars(PollYield)
  /\ WF_vars(WaitReceive)
  /\ WF_vars(StreamReceive)
  /\ WF_vars(Pull)

SpecLive == Init /\ [][NextPoll]_vars /\ Fairness

\* The hook is seen by makeRequest only: the client with a hook is followed
\* through the calls that are one makeRequest invocation each.
NextHook ==
  \/ CallMakeRequest
  \/ CallSubmitTask
  \/ CallGetTaskStatus
  \/ CallGetTaskResult
  \/ FetchSettle
  \/ BackoffDone

SpecHook == InitHook /\ [][NextHook]_vars

\* ============================================================== properties
Last(q) == q[Len(q)]

\* the makeRequest invocation in progress has settled and its trace is still there
Settled == tpc = "idle" /\ tres.state \in {"resolved", "rejected"} /\ Len(trace) > 0

Is5xx(t) == t.kind = "response" /\ t.status >= 500 /\ t.status < 600
IsFailedResponse(t) == t.kind = "response" /\ ~(t.status >= 200 /\ t.status < 300)

\* the messages parseErrorMessage can give for a response of status st
HttpMessages(st) == { parseErrorMessage(st, b) : b \in ErrorBodies }

\* C1: a non-2xx answer is followed by another attempt only if the call is
\* retryable, the status is in [500,600) and attempt < maxRetries; a
\* non-retryable call makes exactly one fetch, a failed answer outside
\* [500,600) is the last fetch of its call, and a retryable call answered 5xx
\* every time makes exactly maxRetries + 1 fetches.
C1_RetryOnlyRetryable5xxWithinBudget ==
  /\ (tpc = "backoff" /\ IsFailedResponse(Last(trace)))
        => (retryable /\ Is5xx(Last(trace)) /\ attempt < maxRetries)
  /\ (~retryable /\ Len(trace) > 0) => (Len(trace) = 1 /\ tpc = "idle")
  /\ \A k \in 1..Len(trace) :
        (IsFailedResponse(trace[k]) /\ ~Is5xx(trace[k]))
          => (k = Len(trace) /\ tpc = "idle" /\ tres.state = "rejected")
  /\ (Settled /\ retryable /\ \A k \in 1..Len(trace) : Is5xx(trace[k]))
        => Len(trace) = maxRetries + 1

\* C1 witness: a retryable call with maxRetries >= 1 answered 5xx on every attempt has ended
C1_Witness ==
  /\ Settled /\ retryable /\ maxRetries >= 1
  /\ Len(trace) = maxRetries + 1
  /\ \A k \in 1..Len(trace) : Is5xx(trace[k])

\* a retryable call has used every attempt and failed on each of them
AllAttemptsFailed ==
  /\ Settled /\ tres.state = "rejected"
  /\ retryable /\ maxRetries >= 1
  /\ Len(trace) = maxRetries + 1

\* C2 as stated: when a retryable call fails on every attempt, the error
\* raised is the terminal 'Request failed after maximum retries' error.
C2_Original_TerminalErrorOnExhaustion ==
  AllAttemptsFailed => tres.error = MaxRetriesError

\* C2 amended: when a retryable call fails on every attempt, the error raised
\* is the error of the last attempt (the HTTP error with that response's
\* status code, 'Request timeout', or the 'Network error: ...' wrap of the
\* rejection) and never 'Request failed after maximum retries'.
C2_LastAttemptErrorOnExhaustion ==
  AllAttemptsFailed =>
    LET l == Last(trace) IN
      /\ tres.error.message # "Request failed after maximum retries"
      /\ IsFailedResponse(l) =>
           (tres.error.statusCode = l.status /\ tres.error.message \in HttpMessages(l.status))
      /\ ~IsFailedResponse(l) =>
           /\ tres.error.statusCode = NoStatus
           /\ tres.error.message \in
                {"Request timeout", "Network error: Unexpected token",
                 "Network error: " \o (IF l.isError THEN l.message ELSE "Unknown error")}

\* C2 witness: all maxRetries + 1 attempts of a retryable call were answered
\* 5xx and the call has failed
C2_Witness ==
  /\ AllAttemptsFailed
  /\ \A k \in 1..Len(trace) : Is5xx(trace[k])

IsCancellation(t) == t.kind = "reject" /\ t.cause \in {"timeout", "signal"}

\* C3 as stated: a cancelled attempt (timeout elapsed or caller's signal
\* fired) ends the call at once with 'Request timeout': no backoff and no
\* further fetch follow it, whether or not the call is retryable.
C3_CancellationNeverRetried ==
  /\ \A k \in 1..Len(trace) :
        IsCancellation(trace[k]) => (k = Len(trace) /\ tpc = "idle")
  /\ (Settled /\ IsCancellation(Last(trace)))
        => tres = Rejected(TaskForceAIError("Request timeout", NoStatus))

\* the latest trace entry is a network-level failure of the current attempt
NetworkFailedNow ==
  /\ Len(trace) = attempt + 1
  /\ Last(trace).kind = "reject" /\ Last(trace).cause = "network"

\* C4: a network-level failure that is no cancellation is retried when the
\* call is retryable and attempt < maxRetries; otherwise, and always on a
\* non-retryable call, the call fails at that attempt with 'Network error: '
\* followed by the rejection's message, or 'Unknown error' for a non-Error.
C4_NetworkFailurePolicy ==
  NetworkFailedNow =>
    IF retryable /\ attempt < maxRetries
      THEN tpc = "backoff"
      ELSE /\ tpc = "idle"
           /\ ~retryable => Len(trace) = 1
           /\ tres = Rejected(TaskForceAIError(
                 IF Last(trace).isError
                   THEN "Network error: " \o Last(trace).message
                   ELSE "Network error: Unknown error", NoStatus))

\* C4 witness: a non-retryable call failed on a rejection that is not an Error
C4_Witness ==
  /\ NetworkFailedNow /\ ~retryable /\ ~Last(trace).isError
  /\ tres.state = "rejected"

\* C4 second witness: a network failure of a retryable call is being retried
C4_WitnessRetried == NetworkFailedNow /\ retryable /\ tpc = "backoff"

\* every status lookup the poller made has resolved, each with 'processing'
AlwaysProcessing ==
  /\ Len(fetched) = statusCalls
  /\ \A k \in 1..Len(fetched) : fetched[k].status = "processing"

\* C5: waitForCompletion on a task that is 'processing' at every fetch
\* (external signal not set) fails with 'Task did not complete within the
\* expected time' after exactly maxAttempts status lookups, for every
\* maxAttempts including 0, and the error is raised by the poller after its
\* loop has ended (i = max), never while fewer lookups have been made.
C5_DeadlineAfterExactlyMaxAttempts ==
  (op = "wait" /\ AlwaysProcessing /\ ~sigAborted) =>
    /\ statusCalls <= max
    /\ out.state \in {"pending", "rejected"}
    /\ out.state = "rejected" =>
         /\ out.error = DeadlineError
         /\ statusCalls = max
         /\ ppc = "thrown" /\ i = max
         /\ sleeps = max

\* C5 witness: two lookups answered 'processing', then the deadline error
C5_Witness ==
  /\ op = "wait" /\ AlwaysProcessing /\ ~sigAborted
  /\ max = 2 /\ statusCalls = 2
  /\ out = Rejected(DeadlineError)

\* C5 second witness: maxAttempts = 0 fails without any lookup
C5_WitnessZero ==
  op = "wait" /\ max = 0 /\ ~sigAborted /\ statusCalls = 0 /\ out = Rejected(DeadlineError)

TerminalStatus(s) == s.status = "completed" \/ s.status = "failed"

\* C6: waitForCompletion's outcome is fixed by the first terminal status
\* fetched: 'completed' with a non-empty result resolves with exactly that
\* status, 'failed' rejects with its error message or 'Task failed' when the
\* error is absent or empty; every resolved value is 'completed' with a
\* non-empty result.
C6_OutcomeFixedByFirstTerminalStatus ==
  op = "wait" =>
    /\ out.state = "resolved" =>
         /\ Len(fetched) > 0 /\ out.data = Last(fetched)
         /\ out.data.status = "completed"
         /\ out.data.result # Absent /\ out.data.result # ""
    /\ \A k \in 1..Len(fetched) :
         (TerminalStatus(fetched[k]) /\ out.state # "pending") =>
           LET s == fetched[k] IN
             /\ k = Len(fetched)
             /\ (s.status = "completed" /\ s.result # Absent /\ s.result # "")
                  => out = Resolved(s)
             /\ (s.status = "failed" /\ s.error # Absent /\ s.error # "")
                  => out = Rejected(TaskForceAIError(s.error, NoStatus))
             /\ (s.status = "failed" /\ (s.error = Absent \/ s.error = ""))
                  => out = Rejected(TaskForceAIError("Task failed", NoStatus))

\* C6 witness: [processing, completed(result)] resolved with the second status
C6_Witness ==
  /\ op = "wait" /\ out.state = "resolved"
  /\ Len(fetched) = 2 /\ fetched[1].status = "processing"

\* C6 second witness: a 'failed' status without error gave 'Task failed'
C6_WitnessFailed ==
  /\ op = "wait" /\ Len(fetched) > 0 /\ Last(fetched).status = "failed"
  /\ out = Rejected(TaskForceAIError("Task failed", NoStatus))

\* C7: once a 'completed' or 'failed' status has been fetched, that poll
\* starts no further status lookup and no interval sleep: the terminal status
\* is the last one fetched, every lookup made is accounted for, and the only
\* sleeps are those that followed the earlier non-terminal statuses.
C7_TerminalStatusEndsSequence ==
  \A k \in 1..Len(fetched) :
    TerminalStatus(fetched[k]) =>
      /\ k = Len(fetched)
      /\ statusCalls = Len(fetched)
      /\ tpc = "idle"
      /\ ppc # "sleeping"
      /\ sleeps = Len(fetched) - 1
      /\ Len(yielded) <= Len(fetched)

\* C7 witness: a stream was pulled again after it delivered a terminal
\* status as its second element, and the sequence finished
C7_Witness ==
  /\ op = "stream" /\ out = Finished /\ ppc = "returned"
  /\ Len(delivered) = 2 /\ TerminalStatus(Last(delivered))

\* C7 second witness: waitForCompletion resumed the poller after a
\* 'completed' status without result
C7_WitnessWait ==
  /\ op = "wait" /\ ppc = "returned" /\ out = Rejected(DeadlineError)
  /\ Len(fetched) > 0 /\ Last(fetched).status = "completed"

\* C8 as stated: the pull made after cancel() fails with 'Task stream
\* cancelled' (it neither yields nor finishes nor fails otherwise), here for
\* a stream whose last delivered status was 'processing' and whose external
\* signal is not set.
C8_PullAfterCancelRaisesCancelled ==
  (/\ op = "stream" /\ cancelAtPull /\ out.state \notin {"idle", "pending"}
   /\ ~sigAborted
   /\ Len(delivered) > 0 /\ Last(delivered).status = "processing")
    => out = Rejected(StreamCancelledError)

\* C9: the poller starts a status lookup only in a step where the external
\* signal is not set; a loop iteration entered with the signal set fails
\* with 'Task polling cancelled' and starts no lookup, and after that error
\* no lookup is outstanding and none is ever started.
C9_SignalCheckedBeforeEachFetch ==
  [][ /\ statusCalls' > statusCalls => ~sigAborted'
      /\ (ppc \in {"none", "sleeping"} /\ ppc' \notin {"none", "sleeping"}
            /\ sigAborted' /\ i' < max')
           => (out' = Rejected(PollCancelledError) /\ statusCalls' = statusCalls
               /\ ppc' = "thrown" /\ tpc' = "idle")
      /\ (out = Rejected(PollCancelledError) \/ ppc = "thrown")
           => (statusCalls' = statusCalls /\ tpc' = "idle" /\ ppc' = ppc)
    ]_vars

\* C9 witness: the signal fired during a poll that had made a lookup, and
\* the next iteration failed with 'Task polling cancelled'
C9_Witness ==
  /\ out = Rejected(PollCancelledError)
  /\ statusCalls = 1 /\ i = 1 /\ sigAborted

IsPrefix(a, b) == Len(a) <= Len(b) /\ a = SubSeq(b, 1, Len(a))

\* C10: the observer sees every fetched status exactly once, in fetch order,
\* and before the status is yielded: what was observed is always a prefix of
\* what was fetched, what was yielded a prefix of what was observed, and at
\* the yield and ever after the observed statuses are exactly the fetched ones.
C10_ObserverSeesEveryStatusBeforeYield ==
  /\ IsPrefix(seen, fetched)
  /\ IsPrefix(yielded, seen)
  /\ IsPrefix(delivered, yielded)
  /\ Len(fetched) <= Len(seen) + 1
  /\ Len(seen) <= Len(yielded) + 1
  /\ ppc = "observed" => (seen = fetched /\ Len(yielded) = Len(seen) - 1)
  /\ ppc \in {"yielded", "sleeping", "returned", "thrown"} => (seen = fetched /\ yielded = seen)

\* C10 witness: fetches [processing, completed] gave exactly two callbacks,
\* in that order, and waitForCompletion resolved
C10_Witness ==
  /\ op = "wait" /\ out.state = "resolved"
  /\ Len(seen) = 2
  /\ seen[1].status = "processing" /\ seen[2].status = "completed"

\* a makeRequest invocation made for the current call is there to look at
\* (mock mode never makes one)
Invoked == ~mockMode /\ (tpc # "idle" \/ Len(trace) > 0)
IsNetworkFailure(t) == t.kind = "reject" /\ t.cause = "network"

\* C11: submitTask and getTaskResult go through the transport as
\* non-retryable calls: a 5xx answer or a network failure ends them with an
\* error after exactly one HTTP attempt, no backoff in between.  getTaskStatus
\* (called directly or by the poller) goes through it as a retryable call
\* with the default maximum of 3 retries, so at most 4 attempts.
C11_RetryabilityPerEndpoint ==
  /\ (op \in {"submitTask", "getTaskResult"} /\ Invoked)
        => /\ ~retryable
           /\ tpc # "backoff" /\ delays = <<>>
           /\ Len(trace) <= 1
           /\ Len(trace) = 1 => tpc = "idle"
           /\ (Len(trace) = 1 /\ (Is5xx(Last(trace)) \/ IsNetworkFailure(Last(trace))))
                 => (out.state = "rejected" /\ out = tres)
  /\ ((op = "getTaskStatus" \/ (op \in {"wait", "stream"} /\ ppc = "awaiting")) /\ Invoked)
        => /\ retryable
           /\ maxRetries = DEFAULT_MAX_RETRIES
           /\ Len(trace) <= DEFAULT_MAX_RETRIES + 1

\* C11 witness: submitTask was answered 5xx and failed after its one attempt
C11_Witness ==
  /\ op = "submitTask" /\ Len(trace) = 1 /\ Is5xx(Last(trace))
  /\ out.state = "rejected" /\ out.error.statusCode = Last(trace).status

\* C11 witness: getTaskStatus was answered 5xx four times and then failed
C11_WitnessStatus ==
  /\ op = "getTaskStatus" /\ out.state = "rejected"
  /\ Len(trace) = DEFAULT_MAX_RETRIES + 1
  /\ \A k \in 1..Len(trace) : Is5xx(trace[k])

\* nothing was requested: no fetch, no makeRequest invocation, no mock answer
NoIO ==
  /\ ~netUsed
  /\ tpc = "idle" /\ trace = <<>> /\ delays = <<>> /\ tres = Idle
  /\ mcc = EmptyMap /\ mres = NoData

\* C12: validation comes before any I/O, in real and in mock mode: submitTask
\* with an empty or whitespace-only prompt, and getTaskStatus, getTaskResult
\* and streamTaskStatus with an empty id, fail with the validation error
\* having requested nothing and retried nothing; streamTaskStatus fails at
\* the call itself, so no handle exists and no iteration has begun.
C12_ValidationBeforeIO ==
  /\ (op = "submitTask" /\ prompt \in {"", "   "})
        => (out = Rejected(PromptError) /\ NoIO)
  /\ (op \in {"getTaskStatus", "getTaskResult", "stream"} /\ via = "" /\ id = "")
        => /\ out = Rejected(IdError) /\ NoIO
           /\ op = "stream" => (spc = "none" /\ ppc = "none" /\ delivered = <<>>)

\* C12 witness: streamTaskStatus('') on a mock-mode client threw
C12_Witness ==
  /\ op = "stream" /\ id = "" /\ mockMode
  /\ out = Rejected(IdError) /\ spc = "none"

\* C12 witness: submitTask('   ') on a real-mode client was rejected
C12_WitnessPrompt ==
  /\ op = "submitTask" /\ prompt = "   " /\ ~mockMode
  /\ out = Rejected(PromptError)

\* C13: runTask and runTaskStream are compositions of submitTask and the
\* waiter / the stream: while the submission is outstanding or has failed no
\* status fetch has been made (and none follows a failed submission, which
\* stays where it is); once it has resolved the poller runs with exactly the
\* id the submission returned, which is also the stream's taskId.
C13_RunTaskIsSubmitThenPoll ==
  via # "" =>
    /\ op \in {"submitTask", "wait", "stream"}
    /\ op = "submitTask"
         => /\ statusCalls = 0 /\ fetched = <<>> /\ mres = NoData
            /\ ppc = "none" /\ spc = "none"
            /\ out.state = "rejected" => \A t \in IdSpace : mockFetches[t] = 0
    /\ op \in {"wait", "stream"} => (subId # "" /\ id = subId)
    /\ statusCalls > 0 => op \in {"wait", "stream"}

\* C13 witness: runTaskStream submitted, got task_1 back, and its stream,
\* polling task_1, has delivered a status
C13_Witness ==
  /\ via = "runTaskStream" /\ op = "stream" /\ ~mockMode
  /\ subId = "task_1" /\ id = "task_1"
  /\ Len(delivered) > 0

\* C13 witness: the submission of runTask failed on its one attempt
C13_WitnessFailed ==
  /\ via = "runTask" /\ op = "submitTask" /\ out.state = "rejected"
  /\ Len(trace) = 1 /\ statusCalls = 0

\* C14: in mock mode, whoever asks and in whatever order, the first status
\* fetch for a task id answers 'processing' and every later one 'completed'
\* with the mock result; the counter kept for the id is the number of status
\* fetches made for it; and runTask (given at least two attempts) resolves
\* with the mock result after exactly two status fetches.
C14_MockLifecycle ==
  [][ /\ \A t \in IdSpace :
           /\ mockFetches'[t] = mockFetches[t] + 1
                => mres' = IF mockFetches[t] = 0 THEN TaskStatus("processing", Absent, Absent)
                                                  ELSE TaskStatus("completed", MOCK_RESULT, Absent)
           /\ MccGet(mcc', t) = mockFetches'[t]
      /\ (mockMode' /\ via' = "runTask" /\ op' = "wait"
            /\ ppc' \in {"returned", "thrown"} /\ max' >= 2)
           => /\ out' = Resolved(TaskStatus("completed", MOCK_RESULT, Absent))
              /\ statusCalls' = 2
              /\ mockFetches'[id'] = 2
    ]_vars

\* C14 witness: runTask on a mock-mode client resolved with the mock result
\* after two status fetches
C14_Witness ==
  /\ mockMode /\ via = "runTask" /\ op = "wait"
  /\ out = Resolved(MockCompleted)
  /\ statusCalls = 2 /\ Len(fetched) = 2
  /\ fetched[1].status = "processing" /\ fetched[2].status = "completed"

\* C14 witness: a stream and another caller fetched the status of task_1
\* between them; the stream's first own fetch already answered 'completed'
C14_WitnessInterleaved ==
  /\ mockMode /\ op = "stream" /\ via = ""
  /\ statusCalls = 1 /\ Len(fetched) = 1 /\ fetched[1].status = "completed"
  /\ mockFetches["task_1"] = 3

\* C15 as stated: on a client constructed with mockMode true no operation
\* ever calls fetch.
C15_MockModeMakesNoRequest ==
  mockMode => ~netUsed

\* the attempts of this invocation whose fetch resolved with a response
ResponsesReceived == { k \in 1..Len(trace) : trace[k].kind = "response" }

\* C16: a configured response hook is invoked exactly once for every
\* response makeRequest receives, 2xx or not and on every attempt, and the
\* call comes before the body is read (response.text() for the error
\* message, response.json() for the result); an attempt whose fetch was
\* rejected gives no call, and without a hook there is none.
C16_HookOncePerResponseBeforeBody ==
  /\ hookCalls = IF hook THEN Cardinality(ResponsesReceived) ELSE 0
  /\ (hook /\ Len(trace) > 0 /\ Last(trace).kind = "response")
        => /\ Len(events) = 2
           /\ events[1] = "hook"
           /\ events[2] = IF IsFailedResponse(Last(trace)) THEN "text" ELSE "json"
  /\ (Len(trace) > 0 /\ Last(trace).kind = "reject") => events = <<>>
  /\ ~hook => \A k \in 1..Len(events) : events[k] # "hook"

\* C16 witness: a retryable call with a hook was answered 5xx and then 200;
\* the hook ran once for each
C16_Witness ==
  /\ hook /\ Len(trace) = 2 /\ hookCalls = 2
  /\ Is5xx(trace[1]) /\ trace[2].kind = "response" /\ trace[2].status = 200
  /\ tres.state = "resolved"
  /\ events = <<"hook", "json">>

\* C17: an exception thrown by the response hook changes nothing: whatever
\* the response was, the attempt ends as it does without a hook.  A 2xx JSON
\* answer resolves the call; a non-2xx answer is retried under the retry
\* policy or raises the HTTP error with that response's status; a 2xx answer
\* that is no JSON takes the network-failure path; and the number of
\* attempts stays within maxRetries + 1.
C17_HookFailureChangesNothing ==
  (hookThrew /\ Len(trace) = attempt + 1) =>
    LET l == Last(trace) IN
      /\ l.kind = "response"
      /\ Len(trace) <= maxRetries + 1
      /\ (~IsFailedResponse(l) /\ l.cause # "badjson")
            => (tpc = "idle" /\ tres.state = "resolved")
      /\ l.cause = "badjson"
            => IF retryable /\ attempt < maxRetries
                 THEN tpc = "backoff"
                 ELSE tpc = "idle" /\
                      tres = Rejected(TaskForceAIError("Network error: Unexpected token", NoStatus))
      /\ IsFailedResponse(l)
            => IF retryable /\ Is5xx(l) /\ attempt < maxRetries
                 THEN tpc = "backoff" /\ Last(delays) = DEFAULT_BACKOFF_MS * (attempt + 1)
                 ELSE /\ tpc = "idle" /\ tres.state = "rejected"
                      /\ tres.error.statusCode = l.status
                      /\ tres.error.message \in HttpMessages(l.status)

\* C17 witness: the hook threw on a 200 answer and the call resolved
C17_Witness ==
  /\ hookThrew /\ Len(trace) = 1 /\ Last(trace).status = 200
  /\ tpc = "idle" /\ tres.state = "resolved"

\* C17 witness: the hook threw on a 503 answer to a retryable call, which
\* went on to its backoff sleep
C17_WitnessRetry ==
  /\ hookThrew /\ Len(trace) = 1 /\ Last(trace).status = 503
  /\ retryable /\ tpc = "backoff"

\* errors raised through makeRequest: the error of a settled invocation has
\* a status code exactly when its last attempt was a non-2xx response, the
\* code being that status; and an error a client call ends with either is
\* that transport error, unchanged, or has no status code
EngineErrorsCarryStatusIffHttp ==
  /\ (Settled /\ tres.state = "rejected")
        => /\ (tres.error.statusCode # NoStatus) <=> IsFailedResponse(Last(trace))
           /\ IsFailedResponse(Last(trace)) => tres.error.statusCode = Last(trace).status
  /\ (out.state = "rejected" /\ op \notin {"uploadFile", "downloadFile"})
        => \/ out.error.statusCode = NoStatus
           \/ (tres.state = "rejected" /\ out.error = tres.error)

\* errors raised by uploadFile / downloadFile, same rule
FileErrorsCarryStatusIffHttp ==
  (out.state = "rejected" /\ op \in {"uploadFile", "downloadFile"})
     => /\ (out.error.statusCode # NoStatus) <=> (rawStatus # 0 /\ ~ResponseOk(rawStatus))
        /\ (rawStatus # 0 /\ ~ResponseOk(rawStatus)) => out.error.statusCode = rawStatus

\* C18 as stated: an error raised by the library carries a status code
\* exactly when it originated from a non-2xx HTTP response, and the code is
\* that response's status.
C18_StatusCodeIffHttpError ==
  EngineErrorsCarryStatusIffHttp /\ FileErrorsCarryStatusIffHttp

\* the body of the response parsed is a JSON object / has a string in `error`
\* / in `message`
IsJsonObject(b) == b.text # Unreadable /\ b.json /\ b.isRecord
HasErrorString(b) == IsJsonObject(b) /\ b.error \notin {Absent, NonString}
HasMessageString(b) == IsJsonObject(b) /\ b.message \notin {Absent, NonString}
\* the iteration for the response parsed ended with a throw
ParseThrew == pOut.applied /\ pOut.step.act = "throw"

\* C19: for a non-2xx answer whose body is a JSON object, the message is the
\* object's `error` string verbatim when it has one, and otherwise the
\* literal 'HTTP {status}', a `message` string notwithstanding; the error
\* thrown has that message and the response's status.  {"error":"Not found"}
\* with 404 gives ('Not found', 404); {"message":"oops"} with 500 gives
\* ('HTTP 500', 500), on a retryable call as well once it throws.
C19_ErrorFieldElseHttpLiteral ==
  pOut.applied =>
    /\ HasErrorString(pIn.body) => pOut.message = pIn.body.error
    /\ (IsJsonObject(pIn.body) /\ ~HasErrorString(pIn.body))
          => pOut.message = "HTTP " \o ToString(pIn.status)
    /\ (ParseThrew /\ IsJsonObject(pIn.body))
          => pOut.step.error = TaskForceAIError(pOut.message, pIn.status)
    /\ (pIn.body.text = "{\"error\":\"Not found\"}" /\ pIn.status = 404)
          => pOut.step = StepThrow(TaskForceAIError("Not found", 404))
    /\ (pIn.body.text = "{\"message\":\"oops\"}" /\ pIn.status = 500
          /\ (~pIn.retryable \/ pIn.attempt = DEFAULT_MAX_RETRIES))
          => pOut.step = StepThrow(TaskForceAIError("HTTP 500", 500))

\* C19 witness: {"message":"oops"} with 500 on the last attempt of a
\* retryable call threw ('HTTP 500', 500)
C19_Witness ==
  /\ pOut.applied /\ pIn.retryable /\ pIn.attempt = DEFAULT_MAX_RETRIES
  /\ pIn.status = 500 /\ pIn.body.message = "oops" /\ pIn.body.error = Absent
  /\ pOut.step = StepThrow(TaskForceAIError("HTTP 500", 500))

\* the text of the body with surrounding white space removed ("" when it
\* cannot be read)
TrimmedText(b) ==
  IF b.text \in {Unreadable, "", " "} THEN ""
  ELSE IF b.text = " Bad gateway " THEN "Bad gateway"
  ELSE b.text

\* C20 as stated: the message is the `error` string of the JSON body, else
\* its `message` string, else the raw trimmed body text, else 'HTTP
\* {status}'; it is the error's message, with the HTTP status as its code.
C20_Original_FourStepPrecedence ==
  pOut.applied =>
    /\ pOut.message =
         IF HasErrorString(pIn.body) THEN pIn.body.error
         ELSE IF HasMessageString(pIn.body) THEN pIn.body.message
         ELSE IF TrimmedText(pIn.body) # "" THEN TrimmedText(pIn.body)
         ELSE "HTTP " \o ToString(pIn.status)
    /\ ParseThrew => pOut.step.error = TaskForceAIError(pOut.message, pIn.status)

\* C20, amended: a body that is a JSON object gives its `error` string, else
\* 'HTTP {status}' (neither `message` nor the text is looked at); any other
\* readable body gives its text as received, untrimmed, when that holds more
\* than white space, else 'HTTP {status}'; an unreadable body gives 'HTTP
\* {status}'.  That message is the error's message, with the HTTP status as
\* its code.
C20_ErrorThenRawTextPrecedence ==
  pOut.applied =>
    /\ pOut.message =
         IF HasErrorString(pIn.body) THEN pIn.body.error
         ELSE IF IsJsonObject(pIn.body) THEN "HTTP " \o ToString(pIn.status)
         ELSE IF TrimmedText(pIn.body) # "" THEN pIn.body.text
         ELSE "HTTP " \o ToString(pIn.status)
    /\ ParseThrew => pOut.step.error = TaskForceAIError(pOut.message, pIn.status)

\* C20 witness: the padded text ' Bad gateway ' came back as the message,
\* padding included, of the error thrown for a 503
C20_Witness ==
  /\ ParseThrew /\ pIn.status = 503
  /\ pIn.body.text = " Bad gateway "
  /\ pOut.step.error = TaskForceAIError(" Bad gateway ", 503)

\* C21 (as stated): for every non-empty prompt and every options mapping the
\* body submitTask sends has an options sub-object holding silent and mock
\* (false when not given) and every other caller key but vercelAiKey, and a
\* top-level vercelAiKey field exactly when the caller supplied vercelAiKey.
OptionsSubObjectShape ==
  LET o == sIn.options
      b == sOut.body
  IN  /\ b["prompt"] = sIn.prompt
      /\ {"silent", "mock"} \subseteq DOMAIN b["options"]
      /\ b["options"]["silent"] = (Has(o, "silent") /\ o["silent"])
      /\ b["options"]["mock"] = (Has(o, "mock") /\ o["mock"])
      /\ \A k \in DOMAIN o \ {"vercelAiKey"} :
           Has(b["options"], k) /\ b["options"][k] = o[k]
      /\ ~Has(b["options"], "vercelAiKey")
C21_Original_TopLevelKeyIffSupplied ==
  sOut.sent =>
    /\ OptionsSubObjectShape
    /\ Has(sOut.body, "vercelAiKey") <=> Has(sIn.options, "vercelAiKey")

\* C21 (amended): the same, but the top-level vercelAiKey field is there
\* exactly when the caller supplied a non-empty vercelAiKey, and then it is
\* the caller's value; a vercelAiKey of '' is sent nowhere.
C21_TopLevelKeyIffNonEmpty ==
  sOut.sent =>
    /\ OptionsSubObjectShape
    /\ Has(sOut.body, "vercelAiKey") <=>
         (Has(sIn.options, "vercelAiKey") /\ sIn.options["vercelAiKey"] # "")
    /\ Has(sOut.body, "vercelAiKey") =>
         sOut.body["vercelAiKey"] = sIn.options["vercelAiKey"]

\* C21 witness: a body was sent for options naming a gateway key, mock and a
\* model id but not silent.
C21_Witness ==
  /\ sOut.sent
  /\ DOMAIN sIn.options = {"vercelAiKey", "mock", "modelId"}
  /\ sIn.options["vercelAiKey"] = "gateway-key"
  /\ sIn.options["mock"]
  /\ sOut.body["options"] = [silent |-> FALSE, mock |-> TRUE, modelId |-> "model-1"]

\* C21 witness: a body was sent for options whose vercelAiKey is ''.
C21_WitnessEmptyKey ==
  /\ sOut.sent
  /\ Has(sIn.options, "vercelAiKey")
  /\ sIn.options["vercelAiKey"] = ""
  /\ DOMAIN sOut.body = {"prompt", "options"}

\* C22 as stated: the cancel flag is tested before the pull advances the
\* poller, so from a pull made with the flag set onwards the stream starts no
\* status lookup and hands no status to the observer.
C22_CancelCheckedBeforePollerAdvances ==
  [][ (op = "stream" /\ cancelAtPull')
        => (statusCalls' = statusCalls /\ seen' = seen) ]_vars

\* C23 as stated: whatever the consumer does with a stream handle, iterators
\* obtained again included, the handle starts one poller invocation at most.
C23_OnePollerInvocationPerHandle ==
  op = "stream" => polls <= 1

\* C24: a stream polls only for a pull.  The status lookups started, the
\* interval sleeps started and the observer calls made never outnumber the
\* pulls the generator was resumed for (each pull starts at most one lookup);
\* before the first pull there are none; and in a step that leaves the
\* generator not started, parked at a yield or finished, no lookup, sleep or
\* observer call is made and no fetch is outstanding.
C24_StreamPollsOnlyWhenPulled ==
  [][ op' = "stream" =>
        /\ statusCalls' <= pulls' /\ sleeps' <= pulls' /\ Len(seen') <= pulls'
        /\ spc' = "notstarted" => (statusCalls' = 0 /\ sleeps' = 0 /\ seen' = <<>>)
        /\ spc' \in {"notstarted", "suspended", "done"} => tpc' = "idle"
        /\ (spc \in {"notstarted", "suspended", "done"} /\ spc' = spc
              /\ iterators' = iterators)
             => (statusCalls' = statusCalls /\ sleeps' = sleeps /\ seen' = seen)
    ]_vars

\* C24 witness: the first pull has delivered a status that is not terminal
\* and the stream sits between pulls, one lookup made, cancel() called
\* meanwhile.
C24_Witness ==
  /\ op = "stream" /\ spc = "suspended" /\ ~mockMode
  /\ Len(delivered) = 1 /\ delivered[1].status = "processing"
  /\ pulls = 1 /\ statusCalls = 1 /\ sleeps = 0 /\ cancel

\* C24 witness: the second pull has slept and started the second lookup.
C24_WitnessSecondPull ==
  /\ op = "stream" /\ spc = "running" /\ tpc = "fetch"
  /\ pulls = 2 /\ statusCalls = 2 /\ sleeps = 1 /\ queued = 1

\* C25: within one poll at most one status lookup is outstanding, also for a
\* consumer that pulls without awaiting.  A lookup is started only in a step
\* taken with no fetch and no backoff sleep outstanding and the poller not
\* waiting for a lookup; a fetch or backoff sleep is outstanding only while
\* the poller waits for that lookup, so never during the interval sleep; and
\* the statuses delivered, yielded and observed are, in order, the statuses
\* fetched, the poller being at most one status ahead of what it yielded.
C25_OneFetchOutstandingInOrder ==
  [][ op' = "stream" =>
        /\ statusCalls' > statusCalls => (tpc = "idle" /\ ppc \in {"none", "sleeping"})
        /\ tpc' # "idle" => ppc' = "awaiting"
        /\ ppc' = "sleeping" => tpc' = "idle"
        /\ IsPrefix(delivered', yielded')
        /\ IsPrefix(yielded', seen')
        /\ IsPrefix(seen', fetched')
        /\ Len(fetched') <= Len(yielded') + 1
        /\ Len(fetched') <= statusCalls' /\ statusCalls' <= Len(fetched') + 1
    ]_vars

\* C25 witness: a second next() was made while the first pull's lookup was
\* in its retry backoff; the request waits and the lookup goes on alone.
C25_Witness ==
  /\ op = "stream" /\ queued = 1 /\ pulls = 1
  /\ tpc = "backoff" /\ ppc = "awaiting" /\ statusCalls = 1

\* C25 witness: the second pull is being served after the first status was
\* delivered: the second lookup is outstanding, the first status fetched,
\* observed, yielded and delivered.
C25_WitnessServed ==
  /\ op = "stream" /\ queued = 0 /\ pulls = 2 /\ ~mockMode
  /\ tpc = "fetch" /\ statusCalls = 2
  /\ Len(fetched) = 1 /\ seen = fetched /\ yielded = fetched /\ delivered = fetched

\* C26: the poller's counter advances once per status lookup that succeeded,
\* whatever its retries.  Until a lookup settles i is the number of lookups
\* that succeeded before it, from then to the end of the interval sleep one
\* less than the number that succeeded; a lookup takes at most maxRetries + 1 requests and a poll at
\* most maxAttempts lookups, so at most maxAttempts * (maxRetries + 1)
\* requests; and a lookup that failed after its retries has ended the poll
\* with its error, at the iteration it was made in.
C26_IterationPerSuccessfulLookup ==
  op = "wait" =>
    /\ statusCalls <= max
    /\ Len(trace) <= DEFAULT_MAX_RETRIES + 1
    /\ requests <= max * (DEFAULT_MAX_RETRIES + 1)
    /\ requests <= statusCalls * (DEFAULT_MAX_RETRIES + 1)
    /\ (ppc = "awaiting" /\ tres.state # "resolved")
         => (i = Len(fetched) /\ statusCalls = i + 1)
    /\ (ppc \in {"observed", "yielded", "sleeping"}
          \/ (ppc = "awaiting" /\ tres.state = "resolved"))
         => (i = Len(fetched) - 1 /\ statusCalls = i + 1)
    /\ (ppc = "thrown" /\ tres.state = "rejected")
         => /\ out = Rejected(tres.error)
            /\ tpc = "idle"
            /\ i = Len(fetched) /\ statusCalls = i + 1

\* C26 witness: both lookups of a poll with maxAttempts = 2 used all their
\* retries, the first succeeding on its last attempt: 8 requests, i = 1.
C26_Witness ==
  /\ op = "wait" /\ max = 2 /\ i = 1 /\ Len(fetched) = 1
  /\ requests = 2 * (DEFAULT_MAX_RETRIES + 1)

\* C26 witness: the second lookup failed after its retries and ended the
\* poll with that error.
C26_WitnessFailed ==
  /\ op = "wait" /\ ppc = "thrown" /\ max = 2 /\ i = 1
  /\ out = Rejected(TaskForceAIError("HTTP 503", 503))
  /\ requests > DEFAULT_MAX_RETRIES + 1

\* C27: when the status fetched is 'completed' with a missing or empty
\* result, waitForCompletion does not resolve and does not go on polling (no
\* further lookup, no interval sleep): once it has looked at that status it
\* has failed with 'Task did not complete within the expected time', the
\* poller having returned, and it fails with nothing else.
CompletedWithoutResult(s) == s.status = "completed" /\ ~Truthy(s.result)
C27_CompletedWithoutResultIsDeadlineError ==
  (op = "wait" /\ Len(fetched) > 0 /\ CompletedWithoutResult(Last(fetched))) =>
    /\ out.state \in {"pending", "rejected"}
    /\ statusCalls = Len(fetched) /\ tpc = "idle"
    /\ sleeps = Len(fetched) - 1
    /\ ppc \in {"awaiting", "observed", "yielded", "returned"}
    /\ out.state = "pending" <=> ppc # "returned"
    /\ out.state = "rejected" => out.error = DeadlineError

\* C27 witness: the first lookup of a poll with attempts to spare answered
\* 'completed' without a result, and the call failed with the deadline error.
C27_Witness ==
  /\ op = "wait" /\ max = 2 /\ statusCalls = 1 /\ sleeps = 0
  /\ Len(fetched) = 1 /\ CompletedWithoutResult(fetched[1])
  /\ out = Rejected(DeadlineError)

\* C28: waitForCompletion fails with what the poller failed with.  When the
\* poller has thrown, the call is rejected with the error of the rejected
\* status lookup (same message, same status code) if that is what ended the
\* poll, and else with 'Task polling cancelled' (the signal being set), the
\* deadline error (the attempts being used up) or the task id error; no
\* fetch is outstanding then, and from then on no lookup is started and the
\* rejection stays as it is.
C28_PollerFailuresPropagateUnchanged ==
  [][ (op' = "wait" /\ ppc' = "thrown") =>
        /\ out'.state = "rejected"
        /\ tpc' = "idle"
        /\ tres'.state = "rejected" => out'.error = tres'.error
        /\ tres'.state # "rejected"
             => \/ out'.error = PollCancelledError /\ sigAborted' /\ i' < max'
                \/ out'.error = DeadlineError /\ i' = max'
                \/ out'.error = IdError /\ ~ValidId(id')
        /\ (op = "wait" /\ ppc = "thrown")
             => (statusCalls' = statusCalls /\ out' = out)
    ]_vars

\* C28 witness: the second status lookup was answered 404 and the call
\* failed with that message and status code.
C28_Witness ==
  /\ op = "wait" /\ ppc = "thrown" /\ statusCalls = 2
  /\ out.state = "rejected" /\ out.error.statusCode = 404
  /\ out.error = tres.error

\* C28 witness: the signal fired during the interval sleep and the call
\* failed with 'Task polling cancelled' after one lookup.
C28_WitnessCancelled ==
  /\ op = "wait" /\ ppc = "thrown" /\ statusCalls = 1 /\ max = 2
  /\ out = Rejected(PollCancelledError)

\* C29: the backoff sleep taken after attempt n lasts 500 * (n + 1) ms, so
\* the sleeps of one makeRequest call are 500, 1000, 1500, ... in this order,
\* strictly increasing and at most maxRetries of them; one sleep follows
\* every attempt but the last, so none follows the attempt that ended the
\* call, be it the last attempt allowed or a failure that is not retried.
C29_BackoffDelaysLinear ==
  /\ \A k \in 1..Len(delays) : delays[k] = 500 * k
  /\ \A k \in 1..(Len(delays) - 1) : delays[k] < delays[k + 1]
  /\ Len(delays) <= maxRetries
  /\ tpc = "fetch" => (Len(delays) = attempt /\ Len(trace) = attempt)
  /\ tpc = "backoff" => (Len(delays) = attempt + 1 /\ Len(trace) = attempt + 1)
  /\ (tpc = "idle" /\ trace # <<>>) => Len(delays) = Len(trace) - 1

\* C29 witness: a status lookup (3 retries) failed on all four attempts
\* after sleeping 500, 1000 and 1500 ms.
C29_Witness ==
  /\ delays = <<500, 1000, 1500>>
  /\ tpc = "idle" /\ Len(trace) = 4 /\ tres.state = "rejected"

\* C29 witness: a call that may not retry failed on a 503 without sleeping.
C29_WitnessNotRetried ==
  /\ op = "makeRequest" /\ ~retryable /\ maxRetries = 2
  /\ tpc = "idle" /\ Len(trace) = 1 /\ delays = <<>>
  /\ tres = Rejected(TaskForceAIError("HTTP 503", 503))

\* C30: a poll yields at most maxAttempts statuses, each the answer of a
\* status lookup of its own that succeeded; and when fetches settle, timers
\* fire and the stream's consumer keeps pulling, waitForCompletion ends
\* (resolved or rejected) and the stream ends (finished or failed).
C30_PollIsFiniteAndTerminates ==
  /\ [](op \in {"wait", "stream"} =>
          /\ Len(yielded) <= max
          /\ IsPrefix(yielded, fetched)
          /\ Len(fetched) <= statusCalls /\ statusCalls <= max)
  /\ (op = "wait") ~> (op = "wait" /\ out.state \in {"resolved", "rejected"})
  /\ (op = "stream" /\ spc # "none") ~> (op = "stream" /\ spc = "done")

\* C30 witness: a poll with maxAttempts = 2 yielded two statuses, neither
\* terminal, and waitForCompletion ended with the deadline error.
C30_Witness ==
  /\ op = "wait" /\ max = 2 /\ Len(yielded) = 2 /\ ppc = "thrown"
  /\ out = Rejected(DeadlineError)

\* C30 witness: a stream that was pulled until it ended delivered two
\* statuses and failed on the third pull with the deadline error.
C30_WitnessStream ==
  /\ op = "stream" /\ spc = "done" /\ max = 2 /\ Len(delivered) = 2 /\ pulls = 3
  /\ out = Rejected(DeadlineError)

\* C31: once cancel() has been called on a handle the flag stays set, through
\* further cancel() calls, pulls and new iterators, and no iterator of the
\* handle hands out a status any more: nothing is added to what was
\* delivered, and a pull that settles from then on is rejected or finished.
C31_NoStatusAfterCancel ==
  [][ (op = "stream" /\ cancel) =>
        /\ cancel'
        /\ Len(delivered') <= Len(delivered)
        /\ out' # out => out'.state # "resolved"
    ]_vars

\* C31 witness: an iterator obtained after cancel() was pulled; its poll
\* fetched a status and the pull failed with 'Task stream cancelled'.
C31_Witness ==
  /\ op = "stream" /\ cancel /\ cancelAtPull
  /\ iterators = 2 /\ polls = 2 /\ Len(fetched) = 1 /\ delivered = <<>>
  /\ out = Rejected(StreamCancelledError)

\* C31 witness: cancel() was called while a pull of the first iterator was
\* outstanding, after one status had been delivered; that pull failed.
C31_WitnessOutstanding ==
  /\ op = "stream" /\ cancel /\ ~cancelAtPull
  /\ iterators = 1 /\ Len(delivered) = 1 /\ Len(yielded) = 2
  /\ out = Rejected(StreamCancelledError)

\* C32: the signal given to the poller does not reach the status lookup.  A
\* lookup of the poller runs without a caller's signal and none of its
\* attempts ends as an abort by one; the step in which the signal fires
\* leaves the lookup, the poller and the call where they are; and after the
\* signal has fired during a poll, the lookup that was outstanding may take
\* all its attempts (at most maxRetries + 1 settle after the signal, at most
\* maxRetries are issued after it), at most one more status is observed and
\* yielded, no further lookup is started, and the only error the signal
\* leads to is 'Task polling cancelled', raised by the poller's loop.
C32_SignalDoesNotReachLookup ==
  [][ op' = "wait" =>
        /\ ~hasSignal'
        /\ \A k \in 1..Len(trace') : trace'[k].cause # "signal"
        /\ (sigAborted' /\ ~sigAborted /\ op = "wait")
             => UNCHANGED <<out, tvars, ppc, i, statusCalls, fetched, seen, yielded>>
        /\ sigAt'.set =>
             /\ sigAborted'
             /\ statusCalls' = sigAt'.statusCalls
             /\ requests' <= sigAt'.requests + DEFAULT_MAX_RETRIES
             /\ (ppc' = "awaiting" /\ Len(seen') = sigAt'.seen)
                  => Len(trace') <= DEFAULT_MAX_RETRIES + 1
             /\ Len(seen') <= sigAt'.seen + 1
             /\ Len(yielded') <= sigAt'.yielded + 1
             /\ out' = Rejected(PollCancelledError) => (ppc' = "thrown" /\ tpc' = "idle")
    ]_vars

\* C32 witness: the signal fired while the first attempt of a lookup was
\* outstanding; all four attempts were made all the same and the last one
\* brought the status.
C32_Witness ==
  /\ op = "wait" /\ sigAt.set /\ sigAt.settled = 0 /\ sigAt.requests = 1
  /\ requests = 1 + DEFAULT_MAX_RETRIES /\ Len(trace) = DEFAULT_MAX_RETRIES + 1
  /\ ppc = "awaiting" /\ tres.state = "resolved"

\* C32 witness: the status of that lookup was observed and yielded after
\* the signal, and the next iteration raised 'Task polling cancelled'.
C32_WitnessCancelled ==
  /\ op = "wait" /\ sigAt.set /\ sigAt.settled = 0 /\ sigAt.yielded = 0
  /\ requests = sigAt.requests + DEFAULT_MAX_RETRIES
  /\ Len(seen) = 1 /\ Len(yielded) = 1 /\ statusCalls = 1
  /\ out = Rejected(PollCancelledError)

\* the latest trace entry is a 2xx answer of the current attempt whose body
\* response.json() could not parse
BadJsonNow ==
  /\ Len(trace) = attempt + 1
  /\ Last(trace).kind = "response" /\ ResponseOk(Last(trace).status)
  /\ Last(trace).cause = "badjson"

\* C33: a 2xx answer whose body is no JSON is treated as a network failure.
\* On a retryable call with attempt < maxRetries the call sleeps its backoff
\* and fetches again; otherwise, and always on a non-retryable call, it
\* fails at that attempt with 'Network error: ' followed by the parser's
\* message, an error without status code.
C33_BadJsonTakesNetworkFailurePath ==
  BadJsonNow =>
    IF retryable /\ attempt < maxRetries
      THEN /\ tpc = "backoff"
           /\ Len(delays) = attempt + 1
      ELSE /\ tpc = "idle"
           /\ ~retryable => Len(trace) = 1
           /\ tres = Rejected(TaskForceAIError("Network error: Unexpected token", NoStatus))
           /\ Direct => out = tres

\* C33 witness: a status lookup got a 2xx answer that is no JSON on each of
\* its four attempts and failed with the network error.
C33_Witness ==
  /\ BadJsonNow /\ retryable /\ attempt = DEFAULT_MAX_RETRIES
  /\ \A k \in 1..Len(trace) : trace[k].cause = "badjson"
  /\ delays = <<500, 1000, 1500>>
  /\ tres.state = "rejected" /\ tres.error.statusCode = NoStatus

\* C33 witness: submitTask, which may not retry, failed on the first such
\* answer.
C33_WitnessNotRetried ==
  /\ op = "submitTask" /\ BadJsonNow /\ ~retryable /\ delays = <<>>
  /\ out = Rejected(TaskForceAIError("Network error: Unexpected token", NoStatus))

====
